---- MODULE Spec2Model ----
(***************************************************************************)
(* Model of the video ingestion/processing pipeline of AI-Video-Analysis:  *)
(*   - GoogleFilesProcessor.waitForFileProcessing (src/lib/aws-s3.ts)      *)
(*   - the streaming handlers POST summarize / process-s3-video            *)
(*     (src/app/api/summarize/route.ts) and process-video                  *)
(*     (src/unnamed/part_001)                                              *)
(*   - processVideoFromS3 / GoogleFilesProcessor.processVideo              *)
(***************************************************************************)
EXTENDS Integers, Sequences, FiniteSets, TLC

(***************************************************************************)
(* Bounds of the model and program constants.                              *)
(***************************************************************************)
\* duration of a slow status query, in ms (an instantaneous one takes 0)
QueryMs == 2000

\* const pollInterval = 5000 (aws-s3.ts:370)
pollInterval == 5000

\* maxWaitTime: number = 300000 (aws-s3.ts:366)
DefaultMaxWaitTime == 300000

\* the maxWaitTime arguments the poller is called with
WaitTimes == {0, pollInterval, 2 * pollInterval + QueryMs, DefaultMaxWaitTime}

\* how long one status query may take
Durations == {0, QueryMs}

\* duration of a status query inside a pipeline run, in ms: a slow remote,
\* so that the default maxWaitTime is used up after one query
PipelineQueryMs == 300000

PipelineDurations == {PipelineQueryMs}

\* number of requests that arrive
MaxRuns == 2

\* what one status query may answer: a 2xx response carrying a state, or a
\* non-2xx response
Responses == {"PROCESSING", "ACTIVE", "FAILED", "HTTP_ERROR"}

VARIABLES
  store,          \* the rows of table summaries (the Result Store)
  store0,         \* the store as it was when the request arrived
  runNo,          \* number of requests started so far
  kind,           \* which entry point serves the request
  pc,             \* position of the run in its code
  req,            \* the request: [id, language, fileName, run]
  loc,            \* the text path's locals: transcript, chunks, summaries
  connected,      \* the consumer still reads the response stream
  isWriterClosed, \* the flag of the same name of the handler
  closes,         \* number of writer.close() calls of the run
  trace,          \* the run's events and blocking calls, in program order
  handle,         \* uploadResult / uploadedFile, or NoHandle
  result,         \* what generation returned to the run
  err,            \* the error the run has thrown, or "none"
  outcome,        \* how a library call (processVideoFromS3) ended
  w,              \* the activation record of waitForFileProcessing
  other,          \* the other request in progress, waiting at an await
  fn              \* the activation record of a helper function called alone

runVars ==
  <<store, store0, runNo, kind, pc, req, loc, connected, isWriterClosed, closes,
    trace, handle, result, err, outcome, other>>

pipeVars == <<runVars, fn>>

\* No helper function is being evaluated on its own.
FnIdle == [op |-> "none"]

(***************************************************************************)
(* GoogleFilesProcessor.waitForFileProcessing                              *)
(***************************************************************************)
\* No call in progress.
WaitIdle ==
  [pc |-> "idle", fileName |-> "", startTime |-> 0, now |-> 0,
   maxWaitTime |-> 0, polls |-> 0, sleeps |-> 0, seen |-> <<>>,
   queried |-> {}, result |-> "none"]

\* const startTime = Date.now(); the call is entered at clock value `now`.
WaitStart(fileName, now, maxWaitTime) ==
  [pc |-> "check", fileName |-> fileName, startTime |-> now, now |-> now,
   maxWaitTime |-> maxWaitTime, polls |-> 0, sleeps |-> 0, seen |-> <<>>,
   queried |-> {}, result |-> "running"]

\* while (Date.now() - startTime < maxWaitTime)
DeadlineOpenInclusive(s) == s.now - s.startTime <= s.maxWaitTime
DeadlineOpen(s) == s.now - s.startTime < s.maxWaitTime

\* What the loop body does with one response: the next pc and the result.
\*   !response.ok            -> throw 'Failed to check file status'
\*   state === 'ACTIVE'      -> return true
\*   state === 'FAILED'      -> throw 'File processing failed on Google servers'
\*   anything else           -> setTimeout(pollInterval)
OnStatusIgnoreFailed(r) ==
  CASE r = "HTTP_ERROR" -> [pc |-> "done", result |-> "status_error"]
    [] r = "ACTIVE"     -> [pc |-> "done", result |-> "active"]
    [] OTHER            -> [pc |-> "sleep", result |-> "running"]

OnStatus(r) ==
  CASE r = "HTTP_ERROR" -> [pc |-> "done", result |-> "status_error"]
    [] r = "ACTIVE"     -> [pc |-> "done", result |-> "active"]
    [] r = "FAILED"     -> [pc |-> "done", result |-> "failed"]
    [] OTHER            -> [pc |-> "sleep", result |-> "running"]

\* One status query (GET by fileName) answered r after d ms.
Query(s, r, d) ==
  [s EXCEPT !.now = s.now + d,
            !.polls = s.polls + 1,
            !.seen = Append(s.seen, r),
            !.queried = s.queried \cup {s.fileName},
            !.pc = OnStatus(r).pc,
            !.result = OnStatus(r).result]

\* await new Promise(resolve => setTimeout(resolve, pollInterval))
Sleep(s) ==
  [s EXCEPT !.now = s.now + pollInterval, !.sleeps = s.sleeps + 1, !.pc = "check"]

\* The loop guard failed: throw 'File processing timeout after ...'
TimeoutResultReturnsTrue == "active"
TimeoutResult == "timeout"

TimedOut(s) == [s EXCEPT !.pc = "done", !.result = TimeoutResult]

\* The successors of a poller state: one loop-guard evaluation followed by a
\* query or the timeout, or one sleep.
WaitNext(s, D) ==
  IF s.pc = "check"
    THEN IF DeadlineOpen(s)
           THEN {Query(s, r, d) : r \in Responses, d \in D}
           ELSE {TimedOut(s)}
    ELSE IF s.pc = "sleep" THEN {Sleep(s)} ELSE {}

vars ==
  <<store, store0, runNo, kind, pc, req, loc, connected, isWriterClosed, closes,
    trace, handle, result, err, outcome, w, other, fn>>

(***************************************************************************)
(* Values shared by the entry points.                                      *)
(***************************************************************************)
NoHandle == [name |-> "", fileUri |-> ""]

\* The file object a successful upload returns (result.file.name / .uri).
RemoteFile == [name |-> "files/f1", fileUri |-> "https://files/f1"]

\* The key each later call is given: waitForFileProcessing(uploadResult.name),
\* processVideoWithGemini(uploadResult.fileUri, ...),
\* deleteGoogleFile(uploadResult.name).
StatusKey(h) == h.name

GenerationKeyIsName(h) == h.name
GenerationKey(h) == h.fileUri

DeleteKey(h) == h.name

NoResult == [transcript |-> "", summary |-> ""]

\* The video ids, S3 keys and languages requests are drawn from.
VideoIds == {"v1"}
S3Keys == {"videos/k1"}
Langs == {"en"}

\* What processVideoWithGemini may return.
FileResults ==
  {[transcript |-> "trA", summary |-> "sumA"]}

\* How uploadToGoogleFiles may end: 'ok', or one of its throws (a fetch that
\* rejects, an initiate answer that is not ok or has no upload URL, a
\* transfer answer that is not ok, has no JSON body or not the expected one).
UploadOutcomes ==
  {"ok", "fetch_failed", "init_failed", "no_upload_url", "transfer_failed",
   "no_json", "bad_format"}

\* How the DELETE request may end: 2xx, non-2xx, or fetch rejecting.
DeleteOutcomes == {"ok", "http_error", "network_error"}

\* deleteGoogleFile: the DELETE and the reading of a non-2xx body are inside
\* try { } catch (error) { logger.error(...) }, so no outcome of it throws.
DeleteError == "Failed to delete file"
DeleteThrowsOnFailure(o) == o # "ok"
DeleteThrows(o) == FALSE

\* One entry of the trace: an event handed to writer.write (ok: the write
\* succeeded) or a blocking call (ok: the call succeeded).
EventEntry(type, arg, warning, ok) ==
  [k |-> "event", type |-> type, arg |-> arg, warning |-> warning, ok |-> ok]

CallEntry(type, arg, ok) ==
  [k |-> "call", type |-> type, arg |-> arg, warning |-> FALSE, ok |-> ok]

\* writer.write resolves while the consumer reads the stream and rejects once
\* it has gone; the consumer may go away before any write.
WriteOutcomes == IF connected THEN {TRUE, FALSE} ELSE {FALSE}

(***************************************************************************)
(* The Result Store: table summaries with UNIQUE(video_id, language).      *)
(***************************************************************************)
Row(id, language, content) ==
  [video_id |-> id, language |-> language, content |-> content]

NoRow == Row("", "", "")

NoLoc ==
  [transcript |-> <<>>, chunks |-> <<>>, sums |-> <<>>, existing |-> NoRow,
   prompt |-> <<>>]

\* .select('*').eq('video_id', id).eq('language', language).single():
\* data is the row, or null when there is none or the request failed (up).
Select(st, id, language, up) ==
  IF up /\ \E r \in st : r.video_id = id /\ r.language = language
    THEN CHOOSE r \in st : r.video_id = id /\ r.language = language
    ELSE NoRow

\* UNIQUE(video_id, language)
ConflictsNever(st, row) == FALSE
Conflicts(st, row) ==
  \E r \in st : r.video_id = row.video_id /\ r.language = row.language

\* .insert(row).select().single(): error when the request fails or the
\* uniqueness constraint rejects the row.
Insert(st, row, up) ==
  IF up /\ ~Conflicts(st, row)
    THEN [error |-> FALSE, store |-> st \cup {row}, data |-> row]
    ELSE [error |-> TRUE, store |-> st, data |-> NoRow]

(***************************************************************************)
(* A request arrives: the state before the handler's first await.          *)
(***************************************************************************)
\* The locals of a request that has not arrived.
IdleRun ==
  [store0 |-> {}, kind |-> "none", pc |-> "idle",
   req |-> [id |-> "", language |-> "", fileName |-> "", run |-> 0],
   loc |-> NoLoc, connected |-> TRUE, isWriterClosed |-> FALSE, closes |-> 0,
   trace |-> <<>>, handle |-> NoHandle, result |-> NoResult, err |-> "none",
   outcome |-> "none", w |-> WaitIdle]

\* The locals of the request whose code is running.
ThisRun ==
  [store0 |-> store0, kind |-> kind, pc |-> pc, req |-> req, loc |-> loc,
   connected |-> connected, isWriterClosed |-> isWriterClosed, closes |-> closes,
   trace |-> trace, handle |-> handle, result |-> result, err |-> err,
   outcome |-> outcome, w |-> w]

InitRun ==
  /\ store = {}
  /\ store0 = {}
  /\ runNo = 0
  /\ kind = "none"
  /\ pc = "idle"
  /\ req = IdleRun.req
  /\ loc = NoLoc
  /\ connected = TRUE
  /\ isWriterClosed = FALSE
  /\ closes = 0
  /\ trace = <<>>
  /\ handle = NoHandle
  /\ result = NoResult
  /\ err = "none"
  /\ outcome = "none"
  /\ other = IdleRun

\* A request arrives and its handler runs up to its first await. The
\* request whose code was running, if it is still in progress, waits at
\* its await meanwhile; a run that is over is gone.
Begin(k, first, r) ==
  /\ runNo < MaxRuns
  /\ \/ pc \in {"idle", "done"} /\ other' = other
     \/ pc \notin {"idle", "done"} /\ other.pc = "idle" /\ other' = ThisRun
  /\ runNo' = runNo + 1
  /\ kind' = k
  /\ pc' = first
  /\ req' = r
  /\ loc' = NoLoc
  /\ connected' = TRUE
  /\ isWriterClosed' = FALSE
  /\ closes' = 0
  /\ trace' = <<>>
  /\ handle' = NoHandle
  /\ result' = NoResult
  /\ err' = "none"
  /\ outcome' = "none"
  /\ w' = WaitIdle
  /\ store0' = store
  /\ UNCHANGED <<store, fn>>

\* The code running reaches an await and the continuation of the other
\* request in progress is run. A run that is over is gone.
Yield ==
  /\ other.pc # "idle"
  /\ other' = IF pc \in {"idle", "done"} THEN IdleRun ELSE ThisRun
  /\ store0' = other.store0
  /\ kind' = other.kind
  /\ pc' = other.pc
  /\ req' = other.req
  /\ loc' = other.loc
  /\ connected' = other.connected
  /\ isWriterClosed' = other.isWriterClosed
  /\ closes' = other.closes
  /\ trace' = other.trace
  /\ handle' = other.handle
  /\ result' = other.result
  /\ err' = other.err
  /\ outcome' = other.outcome
  /\ w' = other.w
  /\ UNCHANGED <<store, runNo, fn>>

(***************************************************************************)
(* POST process-s3-video (route.ts:560-720).                               *)
(***************************************************************************)
emitKeeps ==
  <<store, store0, fn, other, runNo, kind, req, loc, isWriterClosed, closes, handle, result, err,
    outcome, w>>

\* The message of the error a failed waitForFileProcessing throws.
WaitError(s) ==
  CASE s.result = "failed"       -> "File processing failed on Google servers"
    [] s.result = "timeout"      -> "File processing timeout"
    [] s.result = "status_error" -> "Failed to check file status"
    [] OTHER                     -> "none"

\* writeProgress of process-s3-video: nothing once the writer is closed; a
\* rejected write is caught and logged.
WriteProgressS3(type, arg, next) ==
  /\ IF isWriterClosed
       THEN UNCHANGED <<trace, connected>>
       ELSE \E ok \in WriteOutcomes :
              /\ trace' = Append(trace, EventEntry(type, arg, FALSE, ok))
              /\ connected' = ok
  /\ pc' = next

\* closeWriter of process-s3-video: closes the writer the first time only.
CloseWriterS3 ==
  IF isWriterClosed
    THEN UNCHANGED <<isWriterClosed, closes>>
    ELSE isWriterClosed' = TRUE /\ closes' = closes + 1

\* Each stage is awaited inside the one try block: the statement after it
\* runs when it resolved, the catch block when it threw.
AfterStageIgnoresFailure(ok, next) == next
AfterStage(ok, next) == IF ok THEN next ELSE "s3_catch"

\* const { s3Key, fileName } = await req.json(); both are present
S3Begin ==
  \E id \in S3Keys :
    Begin("s3", "s3_start",
          [id |-> id, language |-> "en", fileName |-> "clip.mp4", run |-> runNo + 1])

S3EmitDownloading ==
  /\ pc = "s3_start"
  /\ WriteProgressS3("progress", "Downloading video from S3...", "s3_download")
  /\ UNCHANGED emitKeeps

\* s3Downloader.downloadFile(s3Key)
S3Download ==
  /\ pc = "s3_download"
  /\ \E ok \in BOOLEAN :
       /\ trace' = Append(trace, CallEntry("download", req.id, ok))
       /\ pc' = AfterStage(ok, "s3_p30")
       /\ err' = IF ok THEN err ELSE "Failed to download file from S3"
  /\ UNCHANGED <<store, store0, fn, other, runNo, kind, req, loc, connected, isWriterClosed, closes,
                 handle, result, outcome, w>>

S3EmitUploading ==
  /\ pc = "s3_p30"
  /\ WriteProgressS3("progress", "Uploading to Google Files API...", "s3_upload")
  /\ UNCHANGED emitKeeps

\* googleFilesProcessor.uploadToGoogleFiles(buffer, fileName, contentType)
S3Upload ==
  /\ pc = "s3_upload"
  /\ \E o \in UploadOutcomes :
       /\ trace' = Append(trace, CallEntry("upload", req.fileName, o = "ok"))
       /\ handle' = IF o = "ok" THEN RemoteFile ELSE handle
       /\ pc' = AfterStage(o = "ok", "s3_p50")
       /\ err' = IF o = "ok" THEN err ELSE "Failed to upload to Google Files API"
  /\ UNCHANGED <<store, store0, fn, other, runNo, kind, req, loc, connected, isWriterClosed, closes,
                 result, outcome, w>>

S3EmitWaiting ==
  /\ pc = "s3_p50"
  /\ WriteProgressS3("progress", "Waiting for Google Files processing...", "s3_wait_call")
  /\ UNCHANGED emitKeeps

\* googleFilesProcessor.waitForFileProcessing(uploadResult.name): the call
S3WaitCall ==
  /\ pc = "s3_wait_call"
  /\ trace' = Append(trace, CallEntry("wait", StatusKey(handle), TRUE))
  /\ w' = WaitStart(StatusKey(handle), 0, DefaultMaxWaitTime)
  /\ pc' = "s3_wait"
  /\ UNCHANGED <<store, store0, fn, other, runNo, kind, req, loc, connected, isWriterClosed, closes,
                 handle, result, err, outcome>>

\* ... one step of its loop; the run goes on when it returns or throws
S3WaitStep ==
  /\ pc = "s3_wait"
  /\ \E s \in WaitNext(w, PipelineDurations) :
       /\ w' = s
       /\ pc' = IF s.pc # "done" THEN pc
                ELSE AfterStage(s.result = "active", "s3_p70")
       /\ err' = IF s.pc = "done" /\ s.result # "active" THEN WaitError(s) ELSE err
  /\ UNCHANGED <<store, store0, fn, other, runNo, kind, req, loc, connected, isWriterClosed, closes,
                 trace, handle, result, outcome>>

S3EmitGenerating ==
  /\ pc = "s3_p70"
  /\ WriteProgressS3("progress", "Generating transcript and summary with Gemini...", "s3_generate")
  /\ UNCHANGED emitKeeps

\* googleFilesProcessor.processVideoWithGemini(uploadResult.fileUri, ...)
S3Generate ==
  /\ pc = "s3_generate"
  /\ \/ \E g \in FileResults :
          /\ trace' = Append(trace, CallEntry("generate", GenerationKey(handle), TRUE))
          /\ result' = g
          /\ pc' = AfterStage(TRUE, "s3_p85")
          /\ err' = err
     \/ /\ trace' = Append(trace, CallEntry("generate", GenerationKey(handle), FALSE))
        /\ result' = result
        /\ pc' = AfterStage(FALSE, "s3_p85")
        /\ err' = "Failed to process video with Gemini"
  /\ UNCHANGED <<store, store0, fn, other, runNo, kind, req, loc, connected, isWriterClosed, closes,
                 handle, outcome, w>>

S3EmitCleaning ==
  /\ pc = "s3_p85"
  /\ WriteProgressS3("progress", "Cleaning up Google Files...", "s3_delete")
  /\ UNCHANGED emitKeeps

\* googleFilesProcessor.deleteGoogleFile(uploadResult.name): never throws
S3Delete ==
  /\ pc = "s3_delete"
  /\ \E o \in DeleteOutcomes :
       /\ trace' = Append(trace, CallEntry("delete", DeleteKey(handle), o = "ok"))
       /\ pc' = IF DeleteThrows(o) THEN "s3_catch" ELSE "s3_p90"
       /\ err' = IF DeleteThrows(o) THEN DeleteError ELSE err
  /\ UNCHANGED <<store, store0, fn, other, runNo, kind, req, loc, connected, isWriterClosed, closes,
                 handle, result, outcome, w>>

S3EmitSaving ==
  /\ pc = "s3_p90"
  /\ WriteProgressS3("progress", "Saving to database...", "s3_save")
  /\ UNCHANGED emitKeeps

\* supabase.from('summaries').insert({video_id: s3Key, ..., language: 'en'})
\* if (error) throw new Error('Failed to save summary to database')
S3Save ==
  /\ pc = "s3_save"
  /\ \E up \in BOOLEAN :
       LET ins == Insert(store, Row(req.id, "en", result.summary), up) IN
         /\ store' = ins.store
         /\ trace' = Append(trace, CallEntry("insert", req.id, ~ins.error))
         /\ pc' = AfterStage(~ins.error, "s3_complete")
         /\ err' = IF ins.error THEN "Failed to save summary to database" ELSE err
  /\ UNCHANGED <<store0, fn, other, runNo, kind, req, loc, connected, isWriterClosed, closes, handle,
                 result, outcome, w>>

S3EmitComplete ==
  /\ pc = "s3_complete"
  /\ WriteProgressS3("complete", result.summary, "s3_finally")
  /\ UNCHANGED emitKeeps

\* catch (error) { await writeProgress({type: 'error', message: error.message}) }
S3Catch ==
  /\ pc = "s3_catch"
  /\ WriteProgressS3("error", err, "s3_finally")
  /\ UNCHANGED emitKeeps

\* finally { await closeWriter() }
S3Finally ==
  /\ pc = "s3_finally"
  /\ CloseWriterS3
  /\ pc' = "done"
  /\ UNCHANGED <<store, store0, fn, other, runNo, kind, req, loc, connected, trace, handle, result,
                 err, outcome, w>>

S3Next ==
  \/ S3Begin \/ S3EmitDownloading \/ S3Download \/ S3EmitUploading \/ S3Upload
  \/ S3EmitWaiting \/ S3WaitCall \/ S3WaitStep \/ S3EmitGenerating \/ S3Generate
  \/ S3EmitCleaning \/ S3Delete \/ S3EmitSaving \/ S3Save \/ S3EmitComplete
  \/ S3Catch \/ S3Finally

(***************************************************************************)
(* processVideoFromS3 (route.ts:530-558) calling                           *)
(* GoogleFilesProcessor.processVideo (aws-s3.ts:529-553).                  *)
(***************************************************************************)
libKeeps ==
  <<store, store0, fn, other, runNo, kind, req, loc, connected, isWriterClosed, closes>>

\* if (uploadedFile) in the finally block of processVideo
MustDeleteAlways(h) == TRUE
MustDelete(h) == h # NoHandle

LibBegin ==
  \E id \in S3Keys :
    Begin("lib", "lib_download",
          [id |-> id, language |-> "en", fileName |-> "clip.mp4", run |-> runNo + 1])

\* throw new Error(`Video processing failed: ${error.message}`)
VideoProcessingFailed(message) == "Video processing failed: " \o message

\* s3Downloader.downloadFile(s3Key); a throw goes to the catch of
\* processVideoFromS3
LibDownload ==
  /\ pc = "lib_download"
  /\ \E ok \in BOOLEAN :
       /\ trace' = Append(trace, CallEntry("download", req.id, ok))
       /\ pc' = IF ok THEN "lib_upload" ELSE "lib_catch"
       /\ err' = IF ok THEN err ELSE "Failed to download file from S3"
  /\ UNCHANGED <<libKeeps, handle, result, outcome, w>>

\* uploadedFile = await this.uploadToGoogleFiles(...); on a throw the
\* finally block finds uploadedFile null and deletes nothing
LibUpload ==
  /\ pc = "lib_upload"
  /\ \E o \in UploadOutcomes :
       /\ trace' = Append(trace, CallEntry("upload", req.fileName, o = "ok"))
       /\ handle' = IF o = "ok" THEN RemoteFile ELSE handle
       /\ pc' = IF o = "ok" THEN "lib_wait_call" ELSE "lib_finally"
       /\ err' = IF o = "ok" THEN err ELSE "Failed to upload to Google Files API"
  /\ UNCHANGED <<libKeeps, result, outcome, w>>

\* await this.waitForFileProcessing(uploadedFile.name): the call
LibWaitCall ==
  /\ pc = "lib_wait_call"
  /\ trace' = Append(trace, CallEntry("wait", StatusKey(handle), TRUE))
  /\ w' = WaitStart(StatusKey(handle), 0, DefaultMaxWaitTime)
  /\ pc' = "lib_wait"
  /\ UNCHANGED <<libKeeps, handle, result, err, outcome>>

\* ... one step of its loop; a throw leaves through the finally block
LibWaitStep ==
  /\ pc = "lib_wait"
  /\ \E s \in WaitNext(w, PipelineDurations) :
       /\ w' = s
       /\ pc' = IF s.pc # "done" THEN pc
                ELSE IF s.result = "active" THEN "lib_generate" ELSE "lib_finally"
       /\ err' = IF s.pc = "done" /\ s.result # "active" THEN WaitError(s) ELSE err
  /\ UNCHANGED <<libKeeps, trace, handle, result, outcome>>

\* await this.processVideoWithGemini(uploadedFile.fileUri, fileName, mimeType)
LibGenerate ==
  /\ pc = "lib_generate"
  /\ \/ \E g \in FileResults :
          /\ trace' = Append(trace, CallEntry("generate", GenerationKey(handle), TRUE))
          /\ result' = g
          /\ err' = err
     \/ /\ trace' = Append(trace, CallEntry("generate", GenerationKey(handle), FALSE))
        /\ result' = result
        /\ err' = "Failed to process video with Gemini"
  /\ pc' = "lib_finally"
  /\ UNCHANGED <<libKeeps, handle, outcome, w>>

\* finally { if (uploadedFile) await this.deleteGoogleFile(uploadedFile.name) }
\* then processVideo returns, and processVideoFromS3 returns its result, or
\* processVideo throws the pending error into the catch of processVideoFromS3
LibFinally ==
  /\ pc = "lib_finally"
  /\ IF MustDelete(handle)
       THEN \E o \in DeleteOutcomes :
              /\ trace' = Append(trace, CallEntry("delete", DeleteKey(handle), o = "ok"))
              /\ err' = IF DeleteThrows(o) THEN DeleteError ELSE err
       ELSE UNCHANGED <<trace, err>>
  /\ outcome' = IF err' = "none" THEN "returned" ELSE outcome
  /\ pc' = IF err' = "none" THEN "done" ELSE "lib_catch"
  /\ UNCHANGED <<libKeeps, handle, result, w>>

\* catch (error) { throw new Error(`Video processing failed: ...`) } of
\* processVideoFromS3: the error of the download or of processVideo is
\* replaced by a new one that carries its message
LibCatch ==
  /\ pc = "lib_catch"
  /\ err' = VideoProcessingFailed(err)
  /\ outcome' = "threw"
  /\ pc' = "done"
  /\ UNCHANGED <<libKeeps, trace, handle, result, w>>

LibNext ==
  \/ LibBegin \/ LibDownload \/ LibUpload \/ LibWaitCall \/ LibWaitStep
  \/ LibGenerate \/ LibFinally \/ LibCatch

(***************************************************************************)
(* The text path: transcripts, splitTranscriptIntoChunks and the text      *)
(* generation of geminiModel.generateContent.                              *)
(***************************************************************************)
\* A transcript is the sequence of the lengths of its words (what
\* transcript.split(' ') returns); a chunk is a sequence of word positions.
RECURSIVE SumLen(_, _)
SumLen(words, idx) ==
  IF idx = <<>> THEN 0 ELSE words[Head(idx)] + SumLen(words, Tail(idx))

\* idx.map(i => words[i]).join(' ').length
JoinLen(words, idx) ==
  IF idx = <<>> THEN 0 ELSE SumLen(words, idx) + Len(idx) - 1

\* transcript.length
TextLen(words) == JoinLen(words, [i \in 1..Len(words) |-> i])

\* currentChunk.slice(-n): the last n elements, and all of them when n = 0
\* (slice(-0) is slice(0)) or when there are fewer than n
SliceLast(chunk, n) ==
  IF n = 0 \/ n >= Len(chunk) THEN chunk
  ELSE SubSeq(chunk, Len(chunk) - n + 1, Len(chunk))

\* if (currentLength + word.length > chunkSize && currentChunk.length > 0)
MustFlush(words, i, currentChunk, currentLength, chunkSize) ==
  currentLength + words[i] > chunkSize /\ Len(currentChunk) > 0

\* const overlapWords = currentChunk.slice(-Math.floor(overlap / 10))
OverlapWords(currentChunk, overlap) == SliceLast(currentChunk, overlap \div 10)

\* currentChunk = [...overlapWords]; ... currentChunk.push(word)
NextChunkWithoutWord(overlapWords, i) == overlapWords
NextChunk(overlapWords, i) == Append(overlapWords, i)

\* One iteration of the loop, on word i: the chunks, the current chunk and
\* its length after it, and the words it seeded (none without a flush).
OnWord(words, i, chunks, currentChunk, currentLength, chunkSize, overlap) ==
  IF MustFlush(words, i, currentChunk, currentLength, chunkSize)
    THEN LET overlapWords == OverlapWords(currentChunk, overlap) IN
           [chunks |-> Append(chunks, currentChunk),
            currentChunk |-> NextChunk(overlapWords, i),
            currentLength |-> JoinLen(words, overlapWords) + words[i] + 1,
            flushed |-> TRUE,
            overlapWords |-> overlapWords]
    ELSE [chunks |-> chunks,
          currentChunk |-> Append(currentChunk, i),
          currentLength |-> currentLength + words[i] + 1,
          flushed |-> FALSE,
          overlapWords |-> <<>>]

\* if (currentChunk.length > 0) chunks.push(currentChunk.join(' ')); return chunks
FinalChunksWithoutTail(chunks, currentChunk) == chunks
FinalChunks(chunks, currentChunk) ==
  IF Len(currentChunk) > 0 THEN Append(chunks, currentChunk) ELSE chunks

\* The loop of splitTranscriptIntoChunks from word i on.
RECURSIVE SplitFrom(_, _, _, _, _, _, _)
SplitFrom(words, i, chunks, currentChunk, currentLength, chunkSize, overlap) ==
  IF i > Len(words)
    THEN FinalChunks(chunks, currentChunk)
    ELSE LET n == OnWord(words, i, chunks, currentChunk, currentLength,
                         chunkSize, overlap) IN
           SplitFrom(words, i + 1, n.chunks, n.currentChunk, n.currentLength,
                     chunkSize, overlap)

splitTranscriptIntoChunks(words, chunkSize, overlap) ==
  SplitFrom(words, 1, <<>>, <<>>, 0, chunkSize, overlap)

\* chunkSize: number = 7000, overlap: number = 1000
DefaultChunkSize == 7000
DefaultOverlap == 1000

\* if (transcript.length < 8000)
DirectThreshold == 8000

\* if (!summary || summary.length < 50)
MinSummaryLength == 50

\* The transcripts of the model: a short one, one under 8000 characters
\* that the chunker splits in two, one over 8000 characters that it returns
\* as one chunk, and a long one that it splits.
Transcripts == {<<60>>, <<3700, 3700>>, <<8500>>, <<4500, 4500>>}

\* The transcripts extractAudioFromVideo builds: one chunk, or two.
PVTranscripts == {<<60>>, <<3700, 3700>>}

\* What geminiModel.generateContent may return for a final summary (after
\* cleanModelOutput), and the length of each text.
SummaryTexts == {"sumA", "short"}

StrLen(t) ==
  CASE t = ""      -> 0
    [] t = "short" -> 20
    [] OTHER       -> 120

\* What it returns for chunk i of a split transcript.
SectionSummary(i) == "sec" \o ToString(i)

(***************************************************************************)
(* POST process-video (part_001:180-341).                                  *)
(***************************************************************************)
textKeeps ==
  <<store, store0, fn, other, runNo, kind, req, connected, isWriterClosed, closes, handle,
    outcome, w>>

\* writeProgress of process-video: as in process-s3-video
WriteProgressPV(type, arg, next) ==
  /\ IF isWriterClosed
       THEN UNCHANGED <<trace, connected>>
       ELSE \E ok \in WriteOutcomes :
              /\ trace' = Append(trace, EventEntry(type, arg, FALSE, ok))
              /\ connected' = ok
  /\ pc' = next

CloseWriterPV ==
  IF isWriterClosed
    THEN UNCHANGED <<isWriterClosed, closes>>
    ELSE isWriterClosed' = TRUE /\ closes' = closes + 1

\* const videoFile = formData.get('video') as File: the field is a File or,
\* unchecked, a string; video_id: `video_${Date.now()}`
PVBegin ==
  \E isFile \in BOOLEAN :
    Begin("pv", "pv_start",
          [id |-> "video_" \o ToString(runNo + 1), language |-> "en",
           fileName |-> IF isFile THEN "clip.mp4" ELSE "", isFile |-> isFile, run |-> runNo + 1])

PVEmitProcessing ==
  /\ pc = "pv_start"
  /\ WriteProgressPV("progress", "Processing video file...", "pv_p30")
  /\ UNCHANGED emitKeeps

\* the second event
PVEmitExtracting ==
  /\ pc = "pv_p30"
  /\ WriteProgressPV("progress", "Extracting audio from video...", "pv_extract")
  /\ UNCHANGED emitKeeps

\* const transcript = await extractAudioFromVideo(videoFile): waits on a
\* timer and returns the transcript; with a 'video' field that is no File it
\* throws, and its catch throws 'Failed to process video audio. ...'
PVExtract ==
  /\ pc = "pv_extract"
  /\ IF req.isFile
       THEN /\ \E t \in PVTranscripts : loc' = [loc EXCEPT !.transcript = t]
            /\ pc' = "pv_p60"
            /\ err' = err
       ELSE /\ loc' = loc
            /\ pc' = "pv_catch"
            /\ err' = "Failed to process video audio. Please ensure the video file contains audio."
  /\ UNCHANGED <<textKeeps, trace, result>>

\* the third event, then const chunks = await splitTranscriptIntoChunks(transcript)
PVEmitTranscribed ==
  /\ pc = "pv_p60"
  /\ LET chunks == splitTranscriptIntoChunks(loc.transcript, DefaultChunkSize, DefaultOverlap) IN
       /\ WriteProgressPV("progress", "Transcription completed, generating summary...",
                          IF Len(chunks) = 1 THEN "pv_generate" ELSE "pv_chunk_emit")
       /\ loc' = [loc EXCEPT !.chunks = chunks]
  /\ UNCHANGED <<store, store0, fn, other, runNo, kind, req, isWriterClosed, closes, handle,
                 result, err, outcome, w>>

\* chunks.length === 1: summaryContent = await geminiModel.generateContent(prompt)
PVGenerate ==
  /\ pc = "pv_generate"
  /\ \/ \E t \in SummaryTexts :
          /\ trace' = Append(trace, CallEntry("generate", "transcript", TRUE))
          /\ result' = [result EXCEPT !.summary = t]
          /\ pc' = "pv_p90"
          /\ err' = err
     \/ /\ trace' = Append(trace, CallEntry("generate", "transcript", FALSE))
        /\ result' = result
        /\ pc' = "pv_catch"
        /\ err' = "generateContent failed"
  /\ UNCHANGED <<textKeeps, loc>>

\* the loop's writeProgress for chunk i + 1
PVEmitChunk ==
  /\ pc = "pv_chunk_emit"
  /\ WriteProgressPV("progress", "Processing chunk " \o ToString(Len(loc.sums) + 1),
                     "pv_chunk_generate")
  /\ UNCHANGED emitKeeps

\* chunkSummaries.push(await geminiModel.generateContent(chunkPrompt))
PVGenerateChunk ==
  /\ pc = "pv_chunk_generate"
  /\ LET i == Len(loc.sums) + 1 IN
       \/ /\ trace' = Append(trace, CallEntry("generate", "chunk" \o ToString(i), TRUE))
          /\ loc' = [loc EXCEPT !.sums = Append(loc.sums, SectionSummary(i))]
          /\ pc' = IF i < Len(loc.chunks) THEN "pv_chunk_emit" ELSE "pv_combine"
          /\ err' = err
       \/ /\ trace' = Append(trace, CallEntry("generate", "chunk" \o ToString(i), FALSE))
          /\ loc' = loc
          /\ pc' = "pv_catch"
          /\ err' = "generateContent failed"
  /\ UNCHANGED <<textKeeps, result>>

\* A section of a combining prompt that carries no label.
NoLabel == 0

\* chunkSummaries.map((summary, index) => `**Section ${index + 1}:**\n${summary}`)
\*   .join('\n\n'): the sections of the combining prompt, in order.
CombinedPromptPV(sums) ==
  [i \in 1..Len(sums) |-> [label |-> i, text |-> sums[i]]]

\* summaryContent = await geminiModel.generateContent(combinedPrompt)
PVCombine ==
  /\ pc = "pv_combine"
  /\ loc' = [loc EXCEPT !.prompt = CombinedPromptPV(loc.sums)]
  /\ \/ \E t \in SummaryTexts :
          /\ trace' = Append(trace, CallEntry("generate", "combine", TRUE))
          /\ result' = [result EXCEPT !.summary = t]
          /\ pc' = "pv_p90"
          /\ err' = err
     \/ /\ trace' = Append(trace, CallEntry("generate", "combine", FALSE))
        /\ result' = result
        /\ pc' = "pv_catch"
        /\ err' = "generateContent failed"
  /\ UNCHANGED textKeeps

PVEmitSaving ==
  /\ pc = "pv_p90"
  /\ WriteProgressPV("progress", "Saving summary...", "pv_save")
  /\ UNCHANGED emitKeeps

\* supabase.from('summaries').insert({...}); if (error) throw
PVSave ==
  /\ pc = "pv_save"
  /\ \E up \in BOOLEAN :
       LET ins == Insert(store, Row(req.id, "en", result.summary), up) IN
         /\ store' = ins.store
         /\ trace' = Append(trace, CallEntry("insert", req.id, ~ins.error))
         /\ pc' = IF ins.error THEN "pv_catch" ELSE "pv_complete"
         /\ err' = IF ins.error THEN "Failed to save summary to database" ELSE err
  /\ UNCHANGED <<store0, fn, other, runNo, kind, req, loc, connected, isWriterClosed, closes,
                 handle, result, outcome, w>>

PVEmitComplete ==
  /\ pc = "pv_complete"
  /\ WriteProgressPV("complete", result.summary, "pv_finally")
  /\ UNCHANGED emitKeeps

PVCatch ==
  /\ pc = "pv_catch"
  /\ WriteProgressPV("error", err, "pv_finally")
  /\ UNCHANGED emitKeeps

PVFinally ==
  /\ pc = "pv_finally"
  /\ CloseWriterPV
  /\ pc' = "done"
  /\ UNCHANGED <<store, store0, fn, other, runNo, kind, req, loc, connected, trace, handle,
                 result, err, outcome, w>>

PVNext ==
  \/ PVBegin \/ PVEmitProcessing \/ PVEmitExtracting \/ PVExtract
  \/ PVEmitTranscribed
  \/ PVGenerate \/ PVEmitChunk \/ PVGenerateChunk \/ PVCombine \/ PVEmitSaving
  \/ PVSave \/ PVEmitComplete \/ PVCatch \/ PVFinally

(***************************************************************************)
(* POST summarize (route.ts:218-503).                                      *)
(***************************************************************************)
\* writeProgress of summarize: nothing once the writer is closed; a rejected
\* write is not caught here and throws into the caller.
WriteProgressSummarize(type, arg, warning, next, onThrow) ==
  IF isWriterClosed
    THEN /\ UNCHANGED <<trace, connected, err>>
         /\ pc' = next
    ELSE \E ok \in WriteOutcomes :
           /\ trace' = Append(trace, EventEntry(type, arg, warning, ok))
           /\ connected' = ok
           /\ pc' = IF ok THEN next ELSE onThrow
           /\ err' = IF ok THEN err ELSE "write failed"

CloseWriterUnguarded ==
  isWriterClosed' = TRUE /\ closes' = closes + 1

CloseWriterSummarize ==
  IF isWriterClosed
    THEN UNCHANGED <<isWriterClosed, closes>>
    ELSE isWriterClosed' = TRUE /\ closes' = closes + 1

sumEmitKeeps ==
  <<store, store0, fn, other, runNo, kind, req, loc, isWriterClosed, closes, handle, result,
    outcome, w>>

\* .update({content: summary, ...}).eq('id', existingSummary.id)
Update(st, old, content, up) ==
  IF up /\ \E r \in st : r.video_id = old.video_id /\ r.language = old.language
    THEN [error |-> FALSE,
          store |-> {r \in st : ~(r.video_id = old.video_id /\ r.language = old.language)}
                      \cup {Row(old.video_id, old.language, content)},
          data |-> Row(old.video_id, old.language, content)]
    ELSE [error |-> TRUE, store |-> st, data |-> NoRow]

\* const { url, language } = await req.json(); videoId = extractVideoId(url)
SumBegin ==
  \E id \in VideoIds, language \in Langs :
    Begin("summarize", "sum_lookup",
          [id |-> id, language |-> language, fileName |-> "", run |-> runNo + 1])

\* Check cache first: const { data: existingSummary } = await supabase...single()
SumLookup ==
  /\ pc = "sum_lookup"
  /\ \E up \in BOOLEAN :
       LET existing == Select(store, req.id, req.language, up) IN
         /\ trace' = Append(trace, CallEntry("select", req.id, up))
         /\ loc' = [loc EXCEPT !.existing = existing]
         /\ pc' = IF existing # NoRow THEN "sum_hit" ELSE "sum_p_fetch"
  /\ UNCHANGED <<textKeeps, result, err>>

\* if (existingSummary) { await writeProgress({type: 'complete', ...})
SumEmitHit ==
  /\ pc = "sum_hit"
  /\ WriteProgressSummarize("complete", loc.existing.content, FALSE,
                            "sum_hit_close", "sum_catch")
  /\ UNCHANGED sumEmitKeeps

\*   await closeWriter(); return; }
SumHitClose ==
  /\ pc = "sum_hit_close"
  /\ CloseWriterSummarize
  /\ pc' = "sum_finally"
  /\ UNCHANGED <<store, store0, fn, other, runNo, kind, req, loc, connected, trace, handle,
                 result, err, outcome, w>>

SumEmitFetching ==
  /\ pc = "sum_p_fetch"
  /\ WriteProgressSummarize("progress", "Fetching video transcript...", FALSE,
                            "sum_fetch", "sum_catch")
  /\ UNCHANGED sumEmitKeeps

\* const { transcript, source, title } = await getTranscript(videoId); then
\* the branch on transcript.length and, for a long one, the split
\* if (transcript.length < 8000): summarized directly, without chunking
IsDirectNever(t) == FALSE
IsDirect(t) == TextLen(t) < DirectThreshold

SumFetch ==
  /\ pc = "sum_fetch"
  /\ \/ \E t \in Transcripts :
          /\ trace' = Append(trace, CallEntry("fetch", req.id, TRUE))
          /\ IF IsDirect(t)
               THEN /\ loc' = [loc EXCEPT !.transcript = t]
                    /\ pc' = "sum_p_direct"
               ELSE /\ loc' = [loc EXCEPT !.transcript = t,
                                 !.chunks = splitTranscriptIntoChunks(
                                              t, DefaultChunkSize, DefaultOverlap)]
                    /\ pc' = "sum_chunk_emit"
          /\ err' = err
     \/ /\ trace' = Append(trace, CallEntry("fetch", req.id, FALSE))
        /\ loc' = loc
        /\ pc' = "sum_catch"
        /\ err' = "Failed to process video"
  /\ UNCHANGED <<textKeeps, result>>

SumEmitDirect ==
  /\ pc = "sum_p_direct"
  /\ WriteProgressSummarize("progress", "Processing video content...", FALSE,
                            "sum_generate", "sum_catch")
  /\ UNCHANGED sumEmitKeeps

\* What follows a generateContent call for a final summary:
\* if (!summary || summary.length < 50) throw
TooShort(t) == t = "" \/ StrLen(t) < MinSummaryLength

\* const summary = await geminiModel.generateContent(finalPrompt) and the check
SumGenerate ==
  /\ pc = "sum_generate"
  /\ \/ \E t \in SummaryTexts :
          /\ trace' = Append(trace, CallEntry("generate", "transcript", TRUE))
          /\ result' = [result EXCEPT !.summary = t]
          /\ pc' = IF TooShort(t) THEN "sum_catch" ELSE "sum_p_save"
          /\ err' = IF TooShort(t)
                      THEN "AI generated an empty or very short summary" ELSE err
     \/ /\ trace' = Append(trace, CallEntry("generate", "transcript", FALSE))
        /\ result' = result
        /\ pc' = "sum_catch"
        /\ err' = "generateContent failed"
  /\ UNCHANGED <<textKeeps, loc>>

SumEmitSaving ==
  /\ pc = "sum_p_save"
  /\ WriteProgressSummarize("progress", "Saving summary to history...", FALSE,
                            "sum_insert", "sum_catch")
  /\ UNCHANGED sumEmitKeeps

\* try { ... .insert({video_id, content: summary, language, ...})
\*       if (error) throw error; -> catch (dbError)
SumInsert ==
  /\ pc = "sum_insert"
  /\ \E up \in BOOLEAN :
       LET ins == Insert(store, Row(req.id, req.language, result.summary), up) IN
         /\ store' = ins.store
         /\ trace' = Append(trace, CallEntry("insert", req.id, ~ins.error))
         /\ pc' = IF ins.error THEN "sum_complete_warn" ELSE "sum_complete"
  /\ UNCHANGED <<store0, fn, other, runNo, kind, req, loc, connected, isWriterClosed, closes,
                 handle, result, err, outcome, w>>

\*       await writeProgress({type: 'complete', summary, ...}) } (in the try)
SumEmitComplete ==
  /\ pc = "sum_complete"
  /\ WriteProgressSummarize("complete", result.summary, FALSE,
                            "sum_close", "sum_complete_warn")
  /\ UNCHANGED sumEmitKeeps

\* catch (dbError) { await writeProgress({type: 'complete', ..., warning}) }
SumEmitCompleteWarning ==
  /\ pc = "sum_complete_warn"
  /\ WriteProgressSummarize("complete", result.summary, TRUE,
                            "sum_close", "sum_catch")
  /\ UNCHANGED sumEmitKeeps

\* await closeWriter(); return;
SumClose ==
  /\ pc = "sum_close"
  /\ CloseWriterSummarize
  /\ pc' = "sum_finally"
  /\ UNCHANGED <<store, store0, fn, other, runNo, kind, req, loc, connected, trace, handle,
                 result, err, outcome, w>>

\* for (let i = 0; i < chunks.length; i++) { await writeProgress(...section i + 1...)
SumEmitChunk ==
  /\ pc = "sum_chunk_emit"
  /\ WriteProgressSummarize("progress",
                            "Processing section " \o ToString(Len(loc.sums) + 1),
                            FALSE, "sum_chunk_generate", "sum_catch")
  /\ UNCHANGED sumEmitKeeps

\*   intermediateSummaries.push(await geminiModel.generateContent(prompt)) }
SumGenerateChunk ==
  /\ pc = "sum_chunk_generate"
  /\ LET i == Len(loc.sums) + 1 IN
       \/ /\ trace' = Append(trace, CallEntry("generate", "chunk" \o ToString(i), TRUE))
          /\ loc' = [loc EXCEPT !.sums = Append(loc.sums, SectionSummary(i))]
          /\ pc' = IF i < Len(loc.chunks) THEN "sum_chunk_emit" ELSE "sum_p_final"
          /\ err' = err
       \/ /\ trace' = Append(trace, CallEntry("generate", "chunk" \o ToString(i), FALSE))
          /\ loc' = loc
          /\ pc' = "sum_catch"
          /\ err' = "generateContent failed"
  /\ UNCHANGED <<textKeeps, result>>

SumEmitFinalizing ==
  /\ pc = "sum_p_final"
  /\ WriteProgressSummarize("progress", "Creating final summary...", FALSE,
                            "sum_combine", "sum_catch")
  /\ UNCHANGED sumEmitKeeps

\* const combinedSummary = intermediateSummaries.join('\n\n'): the sections
\* of the final prompt, in order, none of them labeled.
CombinedSummary(sums) ==
  [i \in 1..Len(sums) |-> [label |-> NoLabel, text |-> sums[i]]]

\* const summary = await geminiModel.generateContent(finalPrompt) and the check
SumCombine ==
  /\ pc = "sum_combine"
  /\ loc' = [loc EXCEPT !.prompt = CombinedSummary(loc.sums)]
  /\ \/ \E t \in SummaryTexts :
          /\ trace' = Append(trace, CallEntry("generate", "combine", TRUE))
          /\ result' = [result EXCEPT !.summary = t]
          /\ pc' = IF TooShort(t) THEN "sum_catch" ELSE "sum_p_save_long"
          /\ err' = IF TooShort(t)
                      THEN "AI generated an empty or very short summary" ELSE err
     \/ /\ trace' = Append(trace, CallEntry("generate", "combine", FALSE))
        /\ result' = result
        /\ pc' = "sum_catch"
        /\ err' = "generateContent failed"
  /\ UNCHANGED textKeeps

SumEmitSavingLong ==
  /\ pc = "sum_p_save_long"
  /\ WriteProgressSummarize("progress", "Saving summary to history...", FALSE,
                            "sum_select", "sum_catch")
  /\ UNCHANGED sumEmitKeeps

\* try { const { data: existingSummary } = await supabase...select('*')...single()
SumSelect ==
  /\ pc = "sum_select"
  /\ \E up \in BOOLEAN :
       LET existing == Select(store, req.id, req.language, up) IN
         /\ trace' = Append(trace, CallEntry("select", req.id, up))
         /\ loc' = [loc EXCEPT !.existing = existing]
         /\ pc' = IF existing # NoRow THEN "sum_update" ELSE "sum_insert_long"
  /\ UNCHANGED <<textKeeps, result, err>>

\*   if (existingSummary) { ...update(...).eq('id', existingSummary.id) ...
SumUpdate ==
  /\ pc = "sum_update"
  /\ \E up \in BOOLEAN :
       LET upd == Update(store, loc.existing, result.summary, up) IN
         /\ store' = upd.store
         /\ trace' = Append(trace, CallEntry("update", req.id, ~upd.error))
         /\ pc' = IF upd.error THEN "sum_complete_warn_long" ELSE "sum_complete_long"
  /\ UNCHANGED <<store0, fn, other, runNo, kind, req, loc, connected, isWriterClosed, closes,
                 handle, result, err, outcome, w>>

\*   } else { ...insert({video_id, content: summary, language, ...}) ... }
SumInsertLong ==
  /\ pc = "sum_insert_long"
  /\ \E up \in BOOLEAN :
       LET ins == Insert(store, Row(req.id, req.language, result.summary), up) IN
         /\ store' = ins.store
         /\ trace' = Append(trace, CallEntry("insert", req.id, ~ins.error))
         /\ pc' = IF ins.error THEN "sum_complete_warn_long" ELSE "sum_complete_long"
  /\ UNCHANGED <<store0, fn, other, runNo, kind, req, loc, connected, isWriterClosed, closes,
                 handle, result, err, outcome, w>>

\*   await writeProgress({type: 'complete', summary: savedSummary.content}) }
SumEmitCompleteLong ==
  /\ pc = "sum_complete_long"
  /\ WriteProgressSummarize("complete", result.summary, FALSE,
                            "sum_finally", "sum_complete_warn_long")
  /\ UNCHANGED sumEmitKeeps

\* catch (dbError) { await writeProgress({type: 'complete', ..., warning}) }
SumEmitCompleteWarningLong ==
  /\ pc = "sum_complete_warn_long"
  /\ WriteProgressSummarize("complete", result.summary, TRUE,
                            "sum_finally", "sum_catch")
  /\ UNCHANGED sumEmitKeeps

\* catch (error) { await writeProgress({type: 'error', ...}).catch(log) }
SumCatch ==
  /\ pc = "sum_catch"
  /\ IF isWriterClosed
       THEN UNCHANGED <<trace, connected>>
       ELSE \E ok \in WriteOutcomes :
              /\ trace' = Append(trace, EventEntry("error", err, FALSE, ok))
              /\ connected' = ok
  /\ pc' = "sum_finally"
  /\ UNCHANGED <<sumEmitKeeps, err>>

\* finally { await closeWriter() }
SumFinally ==
  /\ pc = "sum_finally"
  /\ CloseWriterSummarize
  /\ pc' = "done"
  /\ UNCHANGED <<store, store0, fn, other, runNo, kind, req, loc, connected, trace, handle,
                 result, err, outcome, w>>

SumNext ==
  \/ SumBegin \/ SumLookup \/ SumEmitHit \/ SumHitClose \/ SumEmitFetching
  \/ SumFetch \/ SumEmitDirect \/ SumGenerate \/ SumEmitSaving \/ SumInsert
  \/ SumEmitComplete \/ SumEmitCompleteWarning \/ SumClose \/ SumEmitChunk
  \/ SumGenerateChunk \/ SumEmitFinalizing \/ SumCombine \/ SumEmitSavingLong
  \/ SumSelect \/ SumUpdate \/ SumInsertLong \/ SumEmitCompleteLong
  \/ SumEmitCompleteWarningLong \/ SumCatch \/ SumFinally


(***************************************************************************)
(* Spec: requests served by the entry points, up to two at a time.         *)
(***************************************************************************)
Init == InitRun /\ w = WaitIdle /\ fn = FnIdle

Next == SumNext \/ S3Next \/ PVNext \/ LibNext \/ Yield

Spec == Init /\ [][Next]_vars

\* The steps of the handlers other than the arrival of a request.
RunStep == (SumNext \/ S3Next \/ PVNext \/ LibNext) /\ runNo' = runNo

\* Two requests in progress together are requests to the same handler.
SameHandler == other.pc # "idle" => other.kind = kind

\* The requests of the fair specification: any two one after the other, and
\* two at a time to one handler, which are the runs that meet in the store.
NextFair == Next /\ SameHandler'

\* Every awaited call settles and the continuation of a settled await is
\* run: a request that can take a step takes one, and a request waiting at
\* an await gets its turn.
FairSpec == Init /\ [][NextFair]_vars /\ WF_vars(RunStep) /\ WF_vars(Yield)

(***************************************************************************)
(* SpecWait: waitForFileProcessing called on its own, for every            *)
(* maxWaitTime of WaitTimes and every sequence of responses.               *)
(***************************************************************************)
InitWait ==
  /\ InitRun
  /\ \E m \in WaitTimes : w = WaitStart(RemoteFile.name, 0, m)
  /\ fn = FnIdle

WaitQuery ==
  /\ w.pc = "check"
  /\ DeadlineOpen(w)
  /\ \E r \in Responses, d \in Durations : w' = Query(w, r, d)
  /\ UNCHANGED pipeVars

WaitTimeout ==
  /\ w.pc = "check"
  /\ ~DeadlineOpen(w)
  /\ w' = TimedOut(w)
  /\ UNCHANGED pipeVars

WaitSleep ==
  /\ w.pc = "sleep"
  /\ w' = Sleep(w)
  /\ UNCHANGED pipeVars

NextWait == WaitQuery \/ WaitTimeout \/ WaitSleep

SpecWait == InitWait /\ [][NextWait]_vars

\* The event loop runs every continuation that is ready: a query that was
\* issued is answered, a timer that was set fires.
FairSpecWait == SpecWait /\ WF_vars(NextWait)

(***************************************************************************)
(* splitTranscriptIntoChunks called on its own, one loop iteration a step. *)
(***************************************************************************)
\* The longest transcript, in words, and the word lengths, chunk sizes and
\* overlaps it is called with.  A word of length 0 is what split(' ')
\* returns between two adjacent spaces.
MaxWords == 4
WordLens == {0, 2, 5, 9}
ChunkSizes == {4, 8}
Overlaps == {0, 9, 10, 25}

WordSeqs == UNION {[1..n -> WordLens] : n \in 1..MaxWords}

\* const words = transcript.split(' '); const chunks = [];
\* let currentChunk = []; let currentLength = 0;
\* seeds[j] is the number of words chunk j was seeded with.
SplitStart(words, chunkSize, overlap) ==
  [op |-> "split", pc |-> "loop", words |-> words, chunkSize |-> chunkSize,
   overlap |-> overlap, i |-> 1, chunks |-> <<>>, currentChunk |-> <<>>,
   currentLength |-> 0, seeds |-> <<0>>, result |-> <<>>]

InitSplit ==
  /\ InitRun
  /\ w = WaitIdle
  /\ \E words \in WordSeqs, chunkSize \in ChunkSizes, overlap \in Overlaps :
       fn = SplitStart(words, chunkSize, overlap)

\* for (const word of words) { ... }
SplitIterate ==
  /\ fn.op = "split"
  /\ fn.pc = "loop"
  /\ fn.i <= Len(fn.words)
  /\ LET n == OnWord(fn.words, fn.i, fn.chunks, fn.currentChunk,
                     fn.currentLength, fn.chunkSize, fn.overlap) IN
       fn' = [fn EXCEPT !.i = fn.i + 1,
                        !.chunks = n.chunks,
                        !.currentChunk = n.currentChunk,
                        !.currentLength = n.currentLength,
                        !.seeds = IF n.flushed
                                    THEN Append(fn.seeds, Len(n.overlapWords))
                                    ELSE fn.seeds]
  /\ UNCHANGED <<runVars, w>>

\* if (currentChunk.length > 0) chunks.push(...); return chunks
SplitReturn ==
  /\ fn.op = "split"
  /\ fn.pc = "loop"
  /\ fn.i > Len(fn.words)
  /\ fn' = [fn EXCEPT !.pc = "done",
                      !.result = FinalChunks(fn.chunks, fn.currentChunk)]
  /\ UNCHANGED <<runVars, w>>

NextSplit == SplitIterate \/ SplitReturn

SpecSplit == InitSplit /\ [][NextSplit]_vars

\* The loop body and the return are synchronous code: they run to the end.
FairSpecSplit == SpecSplit /\ WF_vars(NextSplit)

(***************************************************************************)
(* GoogleFilesProcessor.parseGeminiResponse called on its own.  A response *)
(* text is a sequence of tokens: the two headings, a whitespace character  *)
(* and two other characters.                                               *)
(***************************************************************************)
TranscriptHeading == "## TRANSCRIPT"
SummaryHeading == "## SUMMARY"
Space == " "
Tokens == {TranscriptHeading, SummaryHeading, Space, "a", "b"}

\* The longest response text, in tokens.
MaxTokens == 4
Texts == UNION {[1..n -> Tokens] : n \in 0..MaxTokens}

\* The first position from `from` on that holds tok, or 0.
IndexOf(text, tok, from) ==
  IF \E i \in from..Len(text) : text[i] = tok
    THEN CHOOSE i \in from..Len(text) :
           text[i] = tok /\ \A j \in from..(i - 1) : text[j] # tok
    ELSE 0

\* \s* at the start of what follows a heading
RECURSIVE SkipSpaces(_)
SkipSpaces(text) ==
  IF text # <<>> /\ Head(text) = Space THEN SkipSpaces(Tail(text)) ELSE text

RECURSIVE DropTrailingSpaces(_)
DropTrailingSpaces(text) ==
  IF text # <<>> /\ text[Len(text)] = Space
    THEN DropTrailingSpaces(SubSeq(text, 1, Len(text) - 1))
    ELSE text

\* String.prototype.trim
Trim(text) == DropTrailingSpaces(SkipSpaces(text))

NoMatch == [matched |-> FALSE, group |-> <<>>]

\* text.match(/## TRANSCRIPT\s*([\s\S]*?)(?=## SUMMARY|$)/i): from the first
\* TRANSCRIPT heading, group 1 runs to the next SUMMARY heading or the end.
TranscriptMatch(text) ==
  LET i == IndexOf(text, TranscriptHeading, 1) IN
    IF i = 0 THEN NoMatch
    ELSE LET j == IndexOf(text, SummaryHeading, i + 1)
             end == IF j = 0 THEN Len(text) ELSE j - 1 IN
           [matched |-> TRUE, group |-> SkipSpaces(SubSeq(text, i + 1, end))]

\* text.match(/## SUMMARY\s*([\s\S]*?)$/i): from the first SUMMARY heading,
\* group 1 runs to the end of the text.
SummaryMatch(text) ==
  LET i == IndexOf(text, SummaryHeading, 1) IN
    IF i = 0 THEN NoMatch
    ELSE [matched |-> TRUE, group |-> SkipSpaces(SubSeq(text, i + 1, Len(text)))]

\* The text returned for a transcript that comes out empty.
ExtractionFailed == <<"Transcript extraction failed">>

\* transcript || 'Transcript extraction failed'
TranscriptOrFailed(transcript) ==
  IF transcript = <<>> THEN ExtractionFailed ELSE transcript

\* const transcript = transcriptMatch ? transcriptMatch[1].trim() : text;
\* const summary = summaryMatch ? summaryMatch[1].trim() : text;
\* return {transcript: transcript || '...', summary: summary || text}
parseGeminiResponse(text) ==
  LET transcriptMatch == TranscriptMatch(text)
      summaryMatch == SummaryMatch(text)
      transcript == IF transcriptMatch.matched
                      THEN Trim(transcriptMatch.group) ELSE text
      summary == IF summaryMatch.matched THEN Trim(summaryMatch.group) ELSE text
  IN [transcript |-> TranscriptOrFailed(transcript),
      summary |-> IF summary = <<>> THEN text ELSE summary]

ParseStart(text) ==
  [op |-> "parse", pc |-> "call", text |-> text, transcript |-> <<>>,
   summary |-> <<>>, threw |-> FALSE]

InitParse ==
  /\ InitRun
  /\ w = WaitIdle
  /\ \E text \in Texts : fn = ParseStart(text)

\* No statement of parseGeminiResponse can throw on a string: match and trim
\* are total and group 1 takes part in every match.
ParseCall ==
  /\ fn.op = "parse"
  /\ fn.pc = "call"
  /\ LET r == parseGeminiResponse(fn.text) IN
       fn' = [fn EXCEPT !.pc = "done",
                        !.transcript = r.transcript,
                        !.summary = r.summary,
                        !.threw = FALSE]
  /\ UNCHANGED <<runVars, w>>

NextParse == ParseCall

SpecParse == InitParse /\ [][NextParse]_vars

(***************************************************************************)
(* cleanModelOutput called on its own.  A text is one line, a sequence of  *)
(* tokens: the words Sure and Now, a letter, a digit, a space, and the     *)
(* comma, colon and full stop.  On such a text only the replaces modelled  *)
(* below can match; every other replace of the chain needs a word or a     *)
(* line break the text does not have, and returns it unchanged.            *)
(***************************************************************************)
CleanTokens == {"Sure", "Now", "x", "1", Space, ",", ":", "."}

\* The longest text, in tokens.
MaxChars == 4
CleanTexts == UNION {[1..n -> CleanTokens] : n \in 0..MaxChars}

StartsWith(text, tok) == text # <<>> /\ Head(text) = tok

\* What is left of text after its first n tokens and the whitespace that
\* follows them (the \s* every pattern ends with).
RemoveFirst(text, n) == SkipSpaces(SubSeq(text, n + 1, Len(text)))

\* .replace(/^(Okay|...|Sure|Of course|Certainly|Alright)[^]*?,\s*/i, '')
RemovePrefixToComma(text) ==
  LET i == IndexOf(text, ",", 2) IN
    IF StartsWith(text, "Sure") /\ i # 0 THEN RemoveFirst(text, i) ELSE text

\* .replace(/^(Now|First|Let's),?\s*/i, '')
RemoveNow(text) ==
  IF StartsWith(text, "Now")
    THEN IF StartsWith(Tail(text), ",")
           THEN RemoveFirst(text, 2) ELSE RemoveFirst(text, 1)
    ELSE text

\* .replace(/^[^:\n...#*\-...]+:\s*/gm, ''): at the start of the line, one or
\* more characters other than a colon, then a colon.
RemoveMetaInstruction(text) ==
  LET i == IndexOf(text, ":", 1) IN
    IF i > 1 THEN RemoveFirst(text, i) ELSE text

\* The number of leading tokens of text that are whitespace or digits.
RECURSIVE SpaceDigitRun(_)
SpaceDigitRun(text) ==
  IF text # <<>> /\ Head(text) \in {Space, "1"}
    THEN 1 + SpaceDigitRun(Tail(text)) ELSE 0

\* .replace(/^(?![#*\-...])[\s\d]+\.\s*/gm, ''): at the start of the line, one
\* or more whitespace characters or digits, then a full stop.
RemoveNumberedList(text) ==
  LET n == SpaceDigitRun(text) IN
    IF n >= 1 /\ n < Len(text) /\ text[n + 1] = "."
      THEN RemoveFirst(text, n + 1) ELSE text

\* return text.replace(...)....replace(...).trim()
cleanModelOutput(text) ==
  Trim(RemoveNumberedList(RemoveMetaInstruction(RemoveNow(
    RemovePrefixToComma(text)))))

CleanStart(text) ==
  [op |-> "clean", pc |-> "call", text |-> text, once |-> <<>>, twice |-> <<>>]

InitClean ==
  /\ InitRun
  /\ w = WaitIdle
  /\ \E text \in CleanTexts : fn = CleanStart(text)

\* cleanModelOutput(text), and cleanModelOutput of what it returned
CleanCall ==
  /\ fn.op = "clean"
  /\ fn.pc = "call"
  /\ fn' = [fn EXCEPT !.pc = "done",
                      !.once = cleanModelOutput(fn.text),
                      !.twice = cleanModelOutput(cleanModelOutput(fn.text))]
  /\ UNCHANGED <<runVars, w>>

NextClean == CleanCall

SpecClean == InitClean /\ [][NextClean]_vars

(***************************************************************************)
(* getTranscript called on its own, one fetch a step.                      *)
(***************************************************************************)
\* const languages = ['en', 'en-US', 'en-GB', undefined]
languages == <<"en", "en-US", "en-GB", "auto-detect">>

\* The messages of the errors fetchTranscript may throw in the model.
FetchErrors ==
  {"Could not retrieve a transcript", "Video unavailable",
   "Transcript is disabled", "fetch failed"}

\* What a fetch may return: no item, items whose joined text is shorter than
\* 50 characters, items with a longer text.
FetchLists == {"empty", "short", "text"}

NoError == "none"
NoTranscriptFound == "No transcript found after trying all language options"
TranscriptTooShort == "Transcript too short"

\* The keywords of the catch block that error.message.includes() finds in
\* each message ('language' includes 'age').
Keywords(message) ==
  CASE message = "Could not retrieve a transcript"
         -> {"Could not retrieve a transcript"}
    [] message = "Video unavailable" -> {"unavailable"}
    [] message = "Transcript is disabled" -> {"disabled"}
    [] message = NoTranscriptFound -> {"age"}
    [] OTHER -> {}

\* catch (error) { ...; throw new Error(`Failed to process video: ...`) }
RewrapWith(errorMessage) ==
  "Failed to process video: " \o errorMessage
    \o " Please try a different video with captions/subtitles enabled."

Rewrap(message) ==
  CASE "Could not retrieve a transcript" \in Keywords(message) ->
         RewrapWith("No transcripts found for this video. The video may not have captions enabled.")
    [] "unavailable" \in Keywords(message) ->
         RewrapWith("This video is unavailable or private.")
    [] "disabled" \in Keywords(message) ->
         RewrapWith("Transcripts are disabled for this video.")
    [] "age" \in Keywords(message) ->
         RewrapWith("This video is age-restricted and transcripts cannot be fetched.")
    [] OTHER ->
         RewrapWith("This video doesn't have transcripts available.")

\* catch (error) { lastError = error; continue }
OnFetchErrorKeepsFirst(lastError, error) ==
  IF lastError = NoError THEN error ELSE lastError
OnFetchError(lastError, error) == error

\* let transcriptList = null; let lastError = null; before the loop
GetTranscriptStart ==
  [op |-> "getTranscript", pc |-> "loop", i |-> 1, tried |-> <<>>,
   outcomes |-> <<>>, transcriptList |-> "empty", lastError |-> NoError,
   failure |-> NoError]

InitFetch ==
  /\ InitRun
  /\ w = WaitIdle
  /\ fn = GetTranscriptStart

\* One iteration of for (const lang of languages): the fetch returns a list
\* (a non-empty one breaks the loop) or throws.
FetchTry ==
  /\ fn.op = "getTranscript"
  /\ fn.pc = "loop"
  /\ fn.i <= Len(languages)
  /\ \/ \E list \in FetchLists :
          fn' = [fn EXCEPT !.tried = Append(fn.tried, languages[fn.i]),
                           !.outcomes = Append(fn.outcomes, list),
                           !.transcriptList = list,
                           !.i = fn.i + 1,
                           !.pc = IF list # "empty" THEN "after" ELSE "loop"]
     \/ \E error \in FetchErrors :
          fn' = [fn EXCEPT !.tried = Append(fn.tried, languages[fn.i]),
                           !.outcomes = Append(fn.outcomes, error),
                           !.lastError = OnFetchError(fn.lastError, error),
                           !.i = fn.i + 1]
  /\ UNCHANGED <<runVars, w>>

\* The loop ran out of languages.
FetchExhausted ==
  /\ fn.op = "getTranscript"
  /\ fn.pc = "loop"
  /\ fn.i > Len(languages)
  /\ fn' = [fn EXCEPT !.pc = "after"]
  /\ UNCHANGED <<runVars, w>>

\* if (!transcriptList || transcriptList.length === 0) throw lastError || ...
\* if (!transcriptText || transcriptText.length < 50) throw ...; return
\* Every throw is caught by the outer catch and thrown again rewrapped.
FetchFinish ==
  /\ fn.op = "getTranscript"
  /\ fn.pc = "after"
  /\ fn' = CASE fn.transcriptList = "empty" ->
                 [fn EXCEPT !.pc = "threw",
                            !.failure = Rewrap(IF fn.lastError # NoError
                                                 THEN fn.lastError
                                                 ELSE NoTranscriptFound)]
            [] fn.transcriptList = "short" ->
                 [fn EXCEPT !.pc = "threw",
                            !.failure = Rewrap(TranscriptTooShort)]
            [] OTHER -> [fn EXCEPT !.pc = "returned"]
  /\ UNCHANGED <<runVars, w>>

NextFetch == FetchTry \/ FetchExhausted \/ FetchFinish

SpecFetch == InitFetch /\ [][NextFetch]_vars

(***************************************************************************)
(* Two summarize requests served at the same time: the steps of each that  *)
(* meet the store, interleaved in every order.                             *)
(***************************************************************************)
Runs == {1, 2}

\* The summary each request generates (told apart by the request).
RaceSummary(i) == IF i = 1 THEN "sumA" ELSE "sumB"

raceKeeps ==
  <<other, store0, runNo, kind, pc, req, loc, connected, isWriterClosed, closes, trace,
    handle, result, err, outcome, w>>

\* A request: its key, whether its transcript is under 8000 characters, and
\* where it stands.
RaceRun(id, language, direct) ==
  [pc |-> "lookup", id |-> id, language |-> language, direct |-> direct,
   missed |-> FALSE, existing |-> NoRow, write |-> "none", rejected |-> FALSE,
   saved |-> NoRow]

InitRace ==
  /\ InitRun
  /\ w = WaitIdle
  /\ \E l1 \in Langs, l2 \in Langs, d1 \in BOOLEAN, d2 \in BOOLEAN :
       fn = [op |-> "race",
             p |-> [i \in Runs |->
                      RaceRun("v1", IF i = 1 THEN l1 ELSE l2, IF i = 1 THEN d1 ELSE d2)]]

RaceStep(i, run) ==
  fn' = [fn EXCEPT !.p[i] = run]

\* Check cache first: select by (video_id, language); a hit ends the run
RaceLookup(i) ==
  /\ fn.op = "race"
  /\ fn.p[i].pc = "lookup"
  /\ \E up \in BOOLEAN :
       LET existing == Select(store, fn.p[i].id, fn.p[i].language, up) IN
         RaceStep(i, [fn.p[i] EXCEPT !.pc = IF existing # NoRow THEN "done"
                                           ELSE "generate",
                                     !.missed = existing = NoRow])
  /\ UNCHANGED <<store, raceKeeps>>

\* The transcript is fetched and the summary generated; a throw ends the run
RaceGenerate(i) ==
  /\ fn.op = "race"
  /\ fn.p[i].pc = "generate"
  /\ \E ok \in BOOLEAN :
       RaceStep(i, [fn.p[i] EXCEPT !.pc = IF ~ok THEN "done"
                                         ELSE IF fn.p[i].direct THEN "insert"
                                         ELSE "select"])
  /\ UNCHANGED <<store, raceKeeps>>

\* The second select of the chunked path
RaceSelect(i) ==
  /\ fn.op = "race"
  /\ fn.p[i].pc = "select"
  /\ \E up \in BOOLEAN :
       LET existing == Select(store, fn.p[i].id, fn.p[i].language, up) IN
         RaceStep(i, [fn.p[i] EXCEPT !.existing = existing,
                                     !.pc = IF existing # NoRow THEN "update"
                                           ELSE "insert"])
  /\ UNCHANGED raceKeeps
  /\ UNCHANGED store

\* update(...).eq('id', existingSummary.id)
RaceUpdate(i) ==
  /\ fn.op = "race"
  /\ fn.p[i].pc = "update"
  /\ \E up \in BOOLEAN :
       LET upd == Update(store, fn.p[i].existing, RaceSummary(i), up) IN
         /\ store' = upd.store
         /\ RaceStep(i, [fn.p[i] EXCEPT !.pc = "done", !.write = "update",
                                        !.saved = upd.data])
  /\ UNCHANGED raceKeeps

\* insert({video_id, content: summary, language, ...}) of either path
RaceInsert(i) ==
  /\ fn.op = "race"
  /\ fn.p[i].pc = "insert"
  /\ \E up \in BOOLEAN :
       LET row == Row(fn.p[i].id, fn.p[i].language, RaceSummary(i))
           ins == Insert(store, row, up) IN
         /\ store' = ins.store
         /\ RaceStep(i, [fn.p[i] EXCEPT !.pc = "done", !.write = "insert",
                                        !.rejected = up /\ Conflicts(store, row),
                                        !.saved = ins.data])
  /\ UNCHANGED raceKeeps

NextRace ==
  \E i \in Runs :
    \/ RaceLookup(i)
    \/ RaceGenerate(i)
    \/ RaceSelect(i)
    \/ RaceUpdate(i)
    \/ RaceInsert(i)

SpecRace == InitRace /\ [][NextRace]_vars

(***************************************************************************)
(* uploadToGoogleFiles called on its own, one request a step.              *)
(***************************************************************************)
Statuses == {200, 201, 204, 403, 500}

\* response.ok
ResponseOkAlways(status) == TRUE
ResponseOk(status) == status >= 200 /\ status <= 299

NoUploadUrl == "none"
UploadUrls == {NoUploadUrl, "https://upload/session1"}

\* A response without body.
NoBody == "none"

\* The bodies the remote may send with a transfer response: JSON with or
\* without the file, its name and its uri, or nothing.
UploadBodies == {"file", "no_file", "no_name", "no_uri", NoBody}

\* The body the response has: an answer with status 204 has none, whatever
\* was sent with it.
ReceivedBody(status, sent) == IF status = 204 THEN NoBody ELSE sent

NetworkError == 0

FileNames == {"clip.mp4", "talk.mov"}
MimeTypes == {"video/mp4", "video/quicktime"}

\* catch (error) { throw new Error(`Failed to upload to Google Files API: ...`) }
UploadError(message) == "Failed to upload to Google Files API: " \o message

UploadStart(fileName, mimeType) ==
  [op |-> "upload", pc |-> "INIT", fileName |-> fileName, mimeType |-> mimeType,
   requests |-> <<>>, initStatus |-> NetworkError, uploadUrl |-> NoUploadUrl,
   uploadStatus |-> NetworkError, body |-> "no_file", handle |-> NoHandle,
   error |-> "none", path |-> <<"INIT">>]

InitUpload ==
  /\ InitRun
  /\ w = WaitIdle
  /\ \E fileName \in FileNames, mimeType \in MimeTypes :
       fn = UploadStart(fileName, mimeType)

UploadMove(f, pc2) ==
  [f EXCEPT !.pc = pc2, !.path = Append(f.path, pc2)]

UploadFail(f, message) ==
  [UploadMove(f, "FAILED") EXCEPT !.error = UploadError(message)]

\* Step 1: the initiate request; fetch rejects, or answers with a status
\* and maybe the x-goog-upload-url header. if (!initResponse.ok) throw ...
\* if (!uploadUrl) throw ...
UploadInitiate ==
  /\ fn.op = "upload"
  /\ fn.pc = "INIT"
  /\ LET f == [fn EXCEPT !.requests = Append(fn.requests, "initiate")] IN
       \/ fn' = UploadFail(f, "fetch failed")
       \/ \E status \in Statuses, url \in UploadUrls :
            LET g == [f EXCEPT !.initStatus = status, !.uploadUrl = url] IN
              fn' = IF ~ResponseOk(status)
                      THEN UploadFail(g, "Failed to initiate upload: " \o ToString(status))
                    ELSE IF url = NoUploadUrl
                      THEN UploadFail(g, "No upload URL received from Google Files API")
                    ELSE UploadMove(g, "SESSION_STARTED")
  /\ UNCHANGED <<runVars, w>>

\* Step 3: the transfer request is sent to the upload URL
UploadSend ==
  /\ fn.op = "upload"
  /\ fn.pc = "SESSION_STARTED"
  /\ fn' = UploadMove([fn EXCEPT !.requests = Append(fn.requests, "transfer")],
                      "UPLOADING")
  /\ UNCHANGED <<runVars, w>>

\* ... and answered: if (!uploadResponse.ok) throw ...; await
\* uploadResponse.json() rejects when there is no body; the body must hold
\* file.name and file.uri, which make the handle returned
UploadAnswer ==
  /\ fn.op = "upload"
  /\ fn.pc = "UPLOADING"
  /\ \/ fn' = UploadFail(fn, "fetch failed")
     \/ \E status \in Statuses, sent \in UploadBodies :
          LET body == ReceivedBody(status, sent)
              g == [fn EXCEPT !.uploadStatus = status, !.body = body] IN
            fn' = IF ~ResponseOk(status)
                    THEN UploadFail(g, "Failed to upload file data: " \o ToString(status))
                  ELSE IF body = NoBody
                    THEN UploadFail(g, "Unexpected end of JSON input")
                  ELSE IF body # "file"
                    THEN UploadFail(g, "Google Files API returned unexpected response format")
                  ELSE [UploadMove(g, "COMPLETE") EXCEPT !.handle = RemoteFile]
  /\ UNCHANGED <<runVars, w>>

NextUpload == UploadInitiate \/ UploadSend \/ UploadAnswer

SpecUpload == InitUpload /\ [][NextUpload]_vars

(***************************************************************************)
(* Claims about the request handlers (Spec).                               *)
(***************************************************************************)
IsEvent(e) == e.k = "event"

IsCall(e) == e.k = "call"

\* The events the run handed to writer.write, in order.
Events == SelectSeq(trace, IsEvent)

IsTerminal(e) == IsEvent(e) /\ e.type \in {"complete", "error"}

TerminalEvents == SelectSeq(trace, IsTerminal)

\* The positions of the trace holding a call of one type.
CallsOf(type) == {i \in 1..Len(trace) : IsCall(trace[i]) /\ trace[i].type = type}

\* The runs that stream events to a consumer.
Streaming == kind \in {"summarize", "s3", "pv"}

RunOver == pc = "done"

Holds(st, id, language) ==
  \E r \in st : r.video_id = id /\ r.language = language

StoredContent(st, id, language) ==
  (CHOOSE r \in st : r.video_id = id /\ r.language = language).content

\* C1: in every file-path run in which the upload returned a handle, the
\* remote delete for that handle's name is attempted exactly once on every
\* exit path: never twice while the run is going, and once when it is over,
\* whether it succeeded, the wait failed or timed out, or generation or
\* persistence failed.
C1_DeleteAttemptedExactlyOnce ==
  (kind \in {"s3", "lib"} /\ handle # NoHandle) =>
    LET deletes == {i \in CallsOf("delete") : trace[i].arg = handle.name} IN
      /\ Cardinality(deletes) <= 1
      /\ RunOver => Cardinality(deletes) = 1

\* The cache lookup of the run was answered by the Result Store.
LookupAnswered == trace # <<>> /\ trace[1].type = "select" /\ trace[1].ok

\* C2: when the Result Store already holds a row for the request's
\* (sourceId, language) and returns it to the lookup, the summarize run,
\* once over, has emitted exactly one event, a complete carrying the stored
\* summary, has closed the stream, has made no transcript fetch and no
\* generation call, and has inserted or updated no row.
C2_CacheHitSingleComplete ==
  (/\ kind = "summarize"
   /\ RunOver
   /\ Holds(store0, req.id, req.language)
   /\ LookupAnswered) =>
    /\ Len(Events) = 1
    /\ Events[1].type = "complete"
    /\ Events[1].arg = StoredContent(store0, req.id, req.language)
    /\ isWriterClosed
    /\ CallsOf("fetch") = {}
    /\ CallsOf("generate") = {}
    /\ CallsOf("insert") = {}
    /\ CallsOf("update") = {}

\* C3: when a request for an object-store key arrives after an identical one
\* has stored its result, the run, once over, has returned the stored result
\* in a complete event and has made no download, upload or generation call.
C3_SecondFileRunServedFromStore ==
  (kind = "s3" /\ RunOver /\ Holds(store0, req.id, "en")) =>
    /\ Len(TerminalEvents) = 1
    /\ TerminalEvents[1].type = "complete"
    /\ TerminalEvents[1].arg = StoredContent(store0, req.id, "en")
    /\ CallsOf("download") = {}
    /\ CallsOf("upload") = {}
    /\ CallsOf("generate") = {}

\* The run produced a valid summary and its Result Store write failed.
StoreWriteFailed ==
  /\ ~TooShort(result.summary)
  /\ \E i \in CallsOf("insert") \cup CallsOf("update") : ~trace[i].ok

\* C4: in every run, text path or file path, in which generation produced a
\* valid summary and the Result Store write failed, the run does not fail:
\* its terminal event is a complete carrying the generated summary and a
\* warning flag, and no error event is emitted.
C4_StoreFailureStillCompletes ==
  (Streaming /\ StoreWriteFailed) =>
    /\ \A i \in 1..Len(Events) : Events[i].type # "error"
    /\ RunOver =>
         /\ Len(TerminalEvents) = 1
         /\ TerminalEvents[1].type = "complete"
         /\ TerminalEvents[1].arg = result.summary
         /\ TerminalEvents[1].warning

\* C5: every run that starts emits exactly one terminal event, complete or
\* error and never both, and the terminal event is the last event of the
\* run: there is never more than one, nothing is written after it, and a
\* run that is over has one.
C5_ExactlyOneTerminalEvent ==
  Streaming =>
    /\ Len(TerminalEvents) <= 1
    /\ \A i \in 1..Len(Events) : IsTerminal(Events[i]) => i = Len(Events)
    /\ RunOver => Len(TerminalEvents) = 1

\* C6: for every blocking network call of a run, a progress event has been
\* written after the previous blocking call returned and before this call is
\* issued: the entry just before a call is a progress event.
C6_ProgressBeforeEachCall ==
  Streaming =>
    \A i \in 1..Len(trace) :
      IsCall(trace[i]) =>
        /\ i > 1
        /\ IsEvent(trace[i - 1])
        /\ trace[i - 1].type = "progress"

CatchPcs == {"sum_catch", "s3_catch", "pv_catch"}

\* C7: a failed write of a progress event is swallowed and the pipeline keeps
\* running: the failure is not the error of the run, and right after the
\* failed write the run is at its next stage, not in its catch block.
C7_WriteFailureSwallowed ==
  Streaming =>
    /\ err # "write failed"
    /\ (/\ trace # <<>>
        /\ IsEvent(trace[Len(trace)])
        /\ trace[Len(trace)].type = "progress"
        /\ ~trace[Len(trace)].ok) => pc \notin CatchPcs

\* C8: after a write of a progress event to the consumer has failed once,
\* the run attempts no further writes: no event follows a failed one.
C8_NoWriteAfterFailedWrite ==
  Streaming =>
    \A i \in 1..Len(Events) : ~Events[i].ok => i = Len(Events)

\* C11: in every file-path run, every status query and every delete call is
\* addressed by the handle's name and every generation call is given the
\* handle's fileUri; the name never reaches a generation call and the
\* fileUri never reaches a status or delete call.
C11_KeysByRole ==
  (kind \in {"s3", "lib"}) =>
    /\ \A i \in CallsOf("wait") \cup CallsOf("delete") :
         trace[i].arg = handle.name /\ trace[i].arg # handle.fileUri
    /\ \A i \in CallsOf("generate") :
         trace[i].arg = handle.fileUri /\ trace[i].arg # handle.name
    /\ w.queried \subseteq {handle.name}
    /\ handle.fileUri \notin w.queried

\* A file-path run that polled the status, generated and deleted.
C11_Witness ==
  /\ kind \in {"s3", "lib"}
  /\ RunOver
  /\ w.queried # {}
  /\ CallsOf("wait") # {}
  /\ CallsOf("generate") # {}
  /\ CallsOf("delete") # {}

\* A generation call for one chunk of a split transcript.
IsChunkCall(e) ==
  IsCall(e) /\ e.type = "generate" /\ e.arg \notin {"combine", "transcript"}

\* C17: in a chunked text-path run with n chunks, chunk summaries are
\* generated one at a time in index order, and the combining prompt lists
\* the n section summaries in chunk order, each labeled by its 1-based
\* index: the section labeled i is the summary generated from chunk i.
C17_CombineListsLabeledSections ==
  (kind \in {"summarize", "pv"}) =>
    /\ LET calls == SelectSeq(trace, IsChunkCall) IN
         \A k \in 1..Len(calls) : calls[k].arg = "chunk" \o ToString(k)
    /\ \A i \in 1..Len(loc.sums) : loc.sums[i] = SectionSummary(i)
    /\ loc.prompt # <<>> =>
         /\ Len(loc.prompt) = Len(loc.chunks)
         /\ \A i \in 1..Len(loc.prompt) :
              /\ loc.prompt[i].label = i
              /\ loc.prompt[i].text = SectionSummary(i)

\* The generation call for the final summary of a text-path run returned.
FinalGenerated ==
  \E i \in CallsOf("generate") :
    trace[i].arg \in {"transcript", "combine"} /\ trace[i].ok

\* C21: in every text-path run, a generated result that is empty or shorter
\* than 50 characters is a generation error: nothing is written to the
\* Result Store, no complete event carries it, and the run ends with an
\* error event.
C21_ShortResultIsError ==
  (kind \in {"summarize", "pv"} /\ FinalGenerated /\ TooShort(result.summary)) =>
    /\ CallsOf("insert") = {}
    /\ CallsOf("update") = {}
    /\ \A i \in 1..Len(Events) : Events[i].type # "complete"
    /\ RunOver => (Events # <<>> /\ Events[Len(Events)].type = "error")

FailedDelete ==
  \E i \in CallsOf("delete") : ~trace[i].ok

GenerateSucceeded ==
  \E i \in CallsOf("generate") : trace[i].ok

\* The errors waitForFileProcessing and processVideoWithGemini throw.
PrimaryErrors ==
  {"File processing failed on Google servers",
   "File processing timeout",
   "Failed to check file status",
   "Failed to process video with Gemini"}

\* processVideo has thrown into the catch of processVideoFromS3.
ProcessVideoThrew ==
  kind = "lib" /\ pc = "lib_catch" /\ CallsOf("upload") # {}

\* C23: the delete call never throws. In a run whose delete failed (non-2xx
\* or transport failure) no cleanup error is ever pending or thrown;
\* processVideo returns the generation result exactly when the generation
\* succeeded and otherwise throws the error of the wait or of the
\* generation, which processVideoFromS3 throws on as 'Video processing
\* failed: ...' with that message; the file handler goes on to its save, and
\* once that succeeds the row is stored and the only terminal event it may
\* emit is the complete event.
C23_DeleteNeverThrows ==
  /\ err \notin {DeleteError, VideoProcessingFailed(DeleteError)}
  /\ FailedDelete =>
        /\ ProcessVideoThrew => (~GenerateSucceeded /\ err \in PrimaryErrors)
        /\ (kind = "lib" /\ RunOver) =>
              /\ outcome = IF GenerateSucceeded THEN "returned" ELSE "threw"
              /\ GenerateSucceeded => (err = "none" /\ result # NoResult)
              /\ ~GenerateSucceeded =>
                    err \in {VideoProcessingFailed(m) : m \in PrimaryErrors}
        /\ (kind = "s3" /\ RunOver) =>
              /\ CallsOf("insert") # {}
              /\ (\E i \in CallsOf("insert") : trace[i].ok) =>
                    /\ Holds(store, req.id, "en")
                    /\ err = "none"
                    /\ \A k \in 1..Len(TerminalEvents) :
                          TerminalEvents[k].type = "complete"

\* processVideoFromS3 is over: the generation failed, the delete failed too,
\* and the error thrown carries the message of the generation's error.
C23_Witness ==
  /\ kind = "lib"
  /\ RunOver
  /\ FailedDelete
  /\ ~GenerateSucceeded
  /\ CallsOf("generate") # {}
  /\ outcome = "threw"
  /\ err = VideoProcessingFailed("Failed to process video with Gemini")

StageOrder == <<"download", "upload", "wait", "generate", "insert">>

IsStageCall(e) ==
  IsCall(e) /\ e.type \in {StageOrder[k] : k \in 1..Len(StageOrder)}

StageCalls == SelectSeq(trace, IsStageCall)

\* The stage whose call is the k-th stage call is over / has succeeded.
StageOver(k) ==
  IF StageCalls[k].type = "wait" THEN w.pc = "done" ELSE TRUE

StageSucceeded(k) ==
  IF StageCalls[k].type = "wait"
    THEN w.pc = "done" /\ w.result = "active"
    ELSE StageCalls[k].ok

FailedPcs == {"s3_catch", "s3_finally", "done"}

\* C25: in a file-path run the stage calls are, in this order and each at
\* most once, download, upload, wait, generate, save; a stage is called only
\* when every earlier one succeeded; once a stage has failed the run is in
\* its failed state (the error is set, the catch block is next or behind);
\* and a run that ends without an error went through all five.
C25_StagesInOrderNoRetry ==
  kind = "s3" =>
    /\ Len(StageCalls) <= Len(StageOrder)
    /\ \A k \in 1..Len(StageCalls) : StageCalls[k].type = StageOrder[k]
    /\ \A k \in 1..(Len(StageCalls) - 1) : StageSucceeded(k)
    /\ \A k \in 1..Len(StageCalls) :
          (StageOver(k) /\ ~StageSucceeded(k)) =>
            /\ k = Len(StageCalls)
            /\ err # "none"
            /\ pc \in FailedPcs
    /\ (RunOver /\ err = "none") =>
          /\ Len(StageCalls) = Len(StageOrder)
          /\ \A k \in 1..Len(StageCalls) : StageSucceeded(k)
    /\ (pc = "s3_complete") => Len(StageCalls) = Len(StageOrder)

\* A file-path run is over whose wait ended without the file being ready,
\* after a successful download and upload: three stage calls, no more.
C25_Witness ==
  /\ kind = "s3"
  /\ RunOver
  /\ Len(StageCalls) = 3
  /\ StageCalls[3].type = "wait"
  /\ w.pc = "done"
  /\ w.result = "failed"
  /\ err = "File processing failed on Google servers"

ChunkCount ==
  Len(splitTranscriptIntoChunks(loc.transcript, DefaultChunkSize, DefaultOverlap))

DirectCalls == {i \in CallsOf("generate") : trace[i].arg = "transcript"}
CombineCalls == {i \in CallsOf("generate") : trace[i].arg = "combine"}
ChunkCalls == {i \in CallsOf("generate") : IsChunkCall(trace[i])}

OneDirectCall ==
  /\ Cardinality(DirectCalls) = 1
  /\ CombineCalls = {}
  /\ ChunkCalls = {}

ChunkCallsThenCombine(n) ==
  /\ DirectCalls = {}
  /\ Cardinality(ChunkCalls) = n
  /\ Cardinality(CombineCalls) = 1
  /\ \A i \in ChunkCalls : \A j \in CombineCalls : i < j

\* C27 as stated: once the final generation call of a text-path run has
\* returned, a transcript that the chunker returns as one chunk has caused
\* exactly one generation call and no combine call, and one that yields
\* n > 1 chunks exactly n chunk calls followed by exactly one combine call.
C27_CallsFixedByChunkCount ==
  (kind \in {"summarize", "pv"} /\ FinalGenerated) =>
    /\ ChunkCount = 1 => OneDirectCall
    /\ ChunkCount > 1 => ChunkCallsThenCombine(ChunkCount)

\* C27 corrected: the summarize handler summarizes directly (one generation
\* call, no combine) exactly the transcripts shorter than 8000 characters,
\* however many chunks the chunker would make of them, and every other
\* transcript with one call per chunk, n >= 1, followed by one combine call;
\* process-video summarizes directly exactly the transcripts the chunker
\* returns as one chunk, and the others with n chunk calls and one combine.
C27_CallsFixedByPathDecision ==
  (kind \in {"summarize", "pv"} /\ FinalGenerated) =>
    LET direct == IF kind = "summarize"
                    THEN TextLen(loc.transcript) < 8000
                    ELSE ChunkCount = 1
    IN /\ direct => OneDirectCall
       /\ ~direct => ChunkCallsThenCombine(ChunkCount)

\* A summarize run has summarized directly, with one generation call, a
\* transcript of 7401 characters that the chunker splits into two chunks.
C27_Witness ==
  /\ kind = "summarize"
  /\ FinalGenerated
  /\ loc.transcript = <<3700, 3700>>
  /\ ChunkCount = 2
  /\ OneDirectCall

\* The stream of request r, which has begun, is not closed.
StreamOpen(r) ==
  /\ r.kind \in {"summarize", "s3", "pv"}
  /\ r.pc # "idle"
  /\ ~r.isWriterClosed

\* C28: in every streaming handler the stream is closed at most once, and
\* exactly once by the end of the run whatever its exit path; no event is
\* written once the stream is closed; and every run that has begun
\* eventually closes the stream: as finitely many requests arrive, from some
\* point on no request in progress has its stream open.
C28_ClosedExactlyOnce ==
  /\ [](Streaming =>
          /\ closes <= 1
          /\ isWriterClosed <=> closes = 1
          /\ RunOver => closes = 1)
  /\ [][(Streaming /\ isWriterClosed /\ req'.run = req.run) => Events' = Events]_vars
  /\ <>[](~StreamOpen(ThisRun) /\ ~StreamOpen(other))

\* A summarize run served from the store is over: the stream was closed
\* after the complete event and the finally block closed nothing more.
C28_Witness ==
  /\ kind = "summarize"
  /\ RunOver
  /\ CallsOf("generate") = {}
  /\ Events # <<>>
  /\ Events[Len(Events)].type = "complete"
  /\ closes = 1
  /\ isWriterClosed

\* The download, or the upload, of the run has failed.
NoHandleObtained ==
  \/ \E i \in CallsOf("download") : ~trace[i].ok
  \/ \E i \in CallsOf("upload") : ~trace[i].ok

\* C29: a file-path run whose download or upload failed holds no handle and
\* never queries the file status, calls the generation or attempts a delete;
\* the handler run ends after an error event, the workflow call by throwing
\* 'Video processing failed: ...' with the message of the failed stage.
C29_NoHandleNoRemoteCalls ==
  (kind \in {"s3", "lib"} /\ NoHandleObtained) =>
    /\ handle = NoHandle
    /\ CallsOf("wait") = {}
    /\ w = WaitIdle
    /\ CallsOf("generate") = {}
    /\ CallsOf("delete") = {}
    /\ (kind = "s3" /\ RunOver) =>
          /\ Events # <<>>
          /\ Events[Len(Events)].type = "error"
          /\ Events[Len(Events)].arg = err
          /\ Len(TerminalEvents) = 1
    /\ (kind = "lib" /\ RunOver) =>
          /\ outcome = "threw"
          /\ err \in {VideoProcessingFailed("Failed to download file from S3"),
                      VideoProcessingFailed("Failed to upload to Google Files API")}

\* processVideoFromS3 is over after an upload that failed: processVideo
\* attempted no delete and its error was thrown on.
C29_Witness ==
  /\ kind = "lib"
  /\ RunOver
  /\ \E i \in CallsOf("upload") : ~trace[i].ok
  /\ outcome = "threw"
  /\ err = VideoProcessingFailed("Failed to upload to Google Files API")
  /\ CallsOf("delete") = {}

(***************************************************************************)
(* Claims about waitForFileProcessing (SpecWait, FairSpecWait).            *)
(***************************************************************************)
AllProcessing(q) == \A i \in 1..Len(q) : q[i] = "PROCESSING"

\* The poller never polled past a terminal answer: every answer but the last
\* is PROCESSING, the answers are as many as the queries, a terminal answer
\* ends the call with the matching result, and the call slept once per
\* PROCESSING answer and not after the terminal one.
StopsAtFirstTerminal ==
  /\ w.polls = Len(w.seen)
  /\ \A i \in 1..(Len(w.seen) - 1) : w.seen[i] = "PROCESSING"
  /\ (w.seen # <<>> /\ w.seen[Len(w.seen)] = "ACTIVE")
        => (w.pc = "done" /\ w.result = "active" /\ w.sleeps = w.polls - 1)
  /\ (w.seen # <<>> /\ w.seen[Len(w.seen)] = "FAILED")
        => (w.pc = "done" /\ w.result = "failed" /\ w.sleeps = w.polls - 1)
  /\ w.result = "active" => (w.seen # <<>> /\ w.seen[Len(w.seen)] = "ACTIVE")
  /\ w.result = "failed" => (w.seen # <<>> /\ w.seen[Len(w.seen)] = "FAILED")
  /\ w.seen = <<"FAILED">> => (w.result = "failed" /\ w.polls = 1 /\ w.sleeps = 0)

\* C9 (as stated): waitUntilActive stops polling at the first terminal remote
\* state, without a further query or sleep; for [PROCESSING, PROCESSING,
\* ACTIVE] it returns after 2 polls, for [FAILED] it throws on the first poll.
C9_ReturnsAfterTwoPolls ==
  /\ StopsAtFirstTerminal
  /\ w.seen = <<"PROCESSING", "PROCESSING", "ACTIVE">>
        => (w.result = "active" /\ w.polls = 2)

\* C9 (amended): as above, but for [PROCESSING, PROCESSING, ACTIVE] the call
\* returns on its third status query, after two sleeps.
C9_StopsAtFirstTerminal ==
  /\ StopsAtFirstTerminal
  /\ w.seen = <<"PROCESSING", "PROCESSING", "ACTIVE">>
        => (w.result = "active" /\ w.polls = 3 /\ w.sleeps = 2)

C9_Witness ==
  /\ w.seen = <<"PROCESSING", "PROCESSING", "ACTIVE">>
  /\ w.result = "active"
  /\ w.pc = "done"

\* C10: if every status query reports PROCESSING the call ends by throwing the
\* timeout error, which it throws only once the elapsed time has reached
\* maxWaitTime; it never returns success without having observed ACTIVE.
C10_TimeoutTerminates ==
  /\ <>(w.result = "timeout" \/ ~AllProcessing(w.seen))
  /\ [](w.result = "timeout"
          => (w.pc = "done" /\ w.now - w.startTime >= w.maxWaitTime))
  /\ [](w.result = "active" => \E i \in 1..Len(w.seen) : w.seen[i] = "ACTIVE")
  /\ []((w.pc = "done" /\ AllProcessing(w.seen)) => w.result = "timeout")

C10_Witness ==
  /\ w.result = "timeout"
  /\ w.polls >= 2
  /\ AllProcessing(w.seen)
  /\ w.maxWaitTime > 0


Ceil(a, b) == (a + b - 1) \div b

\* Every query so far was answered at once: only sleeps moved the clock.
Instantaneous == w.now = w.startTime + 5000 * w.sleeps

ProcessingSeen == {k \in 1..Len(w.seen) : w.seen[k] = "PROCESSING"}

\* C30: a status query is issued only while the elapsed time is under
\* maxWaitTime (none at all when maxWaitTime is 0); every PROCESSING
\* response is followed by one sleep of 5000 ms; with instantaneous queries
\* at most ceil(maxWaitTime / 5000) queries are issued, and the timeout
\* error comes only once the deadline is reached; a non-2xx response ends
\* the wait with the status error and is the last query.
C30_DeadlineBeforeEachQuery ==
  /\ [][w'.polls # w.polls =>
          /\ w'.polls = w.polls + 1
          /\ w.pc = "check"
          /\ w.now - w.startTime < w.maxWaitTime]_vars
  /\ [][w.pc = "sleep" =>
          /\ w'.now = w.now + 5000
          /\ w'.polls = w.polls
          /\ w'.pc = "check"]_vars
  /\ [](w.pc # "idle" =>
          /\ w.maxWaitTime = 0 => w.polls = 0
          /\ w.sleeps = Cardinality(ProcessingSeen) - (IF w.pc = "sleep" THEN 1 ELSE 0)
          /\ Instantaneous => w.polls <= Ceil(w.maxWaitTime, 5000)
          /\ w.result = "timeout" => w.now - w.startTime >= w.maxWaitTime
          /\ \A k \in 1..Len(w.seen) :
                w.seen[k] = "HTTP_ERROR" =>
                  /\ k = Len(w.seen)
                  /\ w.pc = "done"
                  /\ w.result = "status_error")

\* A wait of 12000 ms whose three queries were answered PROCESSING at once
\* has timed out at 15000 ms.
C30_Witness ==
  /\ w.maxWaitTime = 12000
  /\ Instantaneous
  /\ w.polls = 3
  /\ w.pc = "done"
  /\ w.result = "timeout"
  /\ w.now - w.startTime = 15000

(***************************************************************************)
(* Claims about splitTranscriptIntoChunks (SpecSplit, FairSpecSplit).      *)
(***************************************************************************)
SplitDone == fn.op = "split" /\ fn.pc = "done"

\* The text split(' ') was applied to is not the empty string.
NonEmptyText == fn.op = "split" /\ TextLen(fn.words) > 0

\* The chunks from chunk j on, each without the words it was seeded with,
\* one after the other.
RECURSIVE StripAndJoin(_, _, _)
StripAndJoin(chunks, seeds, j) ==
  IF j > Len(chunks)
    THEN <<>>
    ELSE SubSeq(chunks[j], seeds[j] + 1, Len(chunks[j]))
           \o StripAndJoin(chunks, seeds, j + 1)

\* C12: for every non-empty text, the returned chunks in index order, each
\* chunk after the first without the words it was seeded with from the
\* previous chunk, are the original word sequence: no word is lost,
\* duplicated or reordered.
C12_StrippedChunksReconstruct ==
  (SplitDone /\ NonEmptyText) =>
    /\ Len(fn.seeds) = Len(fn.result)
    /\ fn.seeds[1] = 0
    /\ StripAndJoin(fn.result, fn.seeds, 1) = [i \in 1..Len(fn.words) |-> i]

\* A split into three chunks, one of them seeded with two words.
C12_Witness ==
  /\ SplitDone
  /\ NonEmptyText
  /\ Len(fn.result) >= 3
  /\ \E j \in 2..Len(fn.result) : fn.seeds[j] = 2

\* C13: for every text, chunkSize and overlap, every returned chunk is at
\* most chunkSize characters long, unless it is a single word longer than
\* chunkSize; chunks that begin with seeded words included.
C13_ChunksWithinChunkSize ==
  SplitDone =>
    \A j \in 1..Len(fn.result) :
      \/ JoinLen(fn.words, fn.result[j]) <= fn.chunkSize
      \/ /\ Len(fn.result[j]) = 1
         /\ fn.words[fn.result[j][1]] > fn.chunkSize

\* C14: a word longer than chunkSize is returned as its own chunk: a chunk
\* that holds it holds no other word, seeded or following.
C14_LongWordAlone ==
  SplitDone =>
    \A i \in 1..Len(fn.words) :
      fn.words[i] > fn.chunkSize =>
        \A j \in 1..Len(fn.result) :
          (\E k \in 1..Len(fn.result[j]) : fn.result[j][k] = i) =>
            fn.result[j] = <<i>>

\* C15: split ends for every non-empty text and returns at least one chunk,
\* the last of which holds the last word; every chunk after the first holds,
\* after the words it was seeded with, a word the previous chunk did not
\* reach.
C15_TerminatesWithProgress ==
  /\ <>(fn.pc = "done")
  /\ [](fn.i <= Len(fn.words) + 1)
  /\ []((SplitDone /\ NonEmptyText) =>
          /\ Len(fn.result) >= 1
          /\ fn.result[Len(fn.result)][Len(fn.result[Len(fn.result)])]
               = Len(fn.words)
          /\ \A j \in 2..Len(fn.result) :
               /\ Len(fn.result[j]) > fn.seeds[j]
               /\ fn.result[j][fn.seeds[j] + 1]
                    = fn.result[j - 1][Len(fn.result[j - 1])] + 1)

\* A split that flushed twice and then returned its last partial chunk.
C15_Witness ==
  /\ SplitDone
  /\ NonEmptyText
  /\ Len(fn.result) = 3
  /\ JoinLen(fn.words, fn.result[3]) < fn.chunkSize

\* The last n words of a chunk, all of them when it has fewer.
LastWords(chunk, n) ==
  IF n >= Len(chunk) THEN chunk
  ELSE SubSeq(chunk, Len(chunk) - n + 1, Len(chunk))

\* C16: for every chunk j flushed before the end of the input, chunk j+1
\* starts with exactly the last floor(overlap / 10) words of chunk j (all of
\* them when it has fewer), for every overlap >= 0: below 10 the count is 0
\* and nothing is seeded.
C16_SeedIsLastOverlapWords ==
  SplitDone =>
    \A j \in 1..(Len(fn.result) - 1) :
      LET seed == LastWords(fn.result[j], fn.overlap \div 10) IN
        /\ fn.seeds[j + 1] = Len(seed)
        /\ SubSeq(fn.result[j + 1], 1, Len(seed)) = seed


(***************************************************************************)
(* Claims about parseGeminiResponse (SpecParse).                           *)
(***************************************************************************)
ParseDone == fn.op = "parse" /\ fn.pc = "done"

HeadingAbsent(heading) == IndexOf(fn.text, heading, 1) = 0

BothHeadingsAbsent ==
  HeadingAbsent(TranscriptHeading) /\ HeadingAbsent(SummaryHeading)

\* C18: when either of the two section headings is absent from the
\* response, both the returned transcript and the returned summary are the
\* full raw response text.
C18_EitherAbsentBothFallBack ==
  (/\ ParseDone
   /\ HeadingAbsent(TranscriptHeading) \/ HeadingAbsent(SummaryHeading)) =>
    /\ fn.transcript = fn.text
    /\ fn.summary = fn.text

\* C19: parsing never throws, whatever the text, and for every response
\* missing both headings, the empty one included, it returns
\* transcript = summary = the raw response.
C19_BothAbsentReturnsRaw ==
  ParseDone =>
    /\ ~fn.threw
    /\ BothHeadingsAbsent => (fn.transcript = fn.text /\ fn.summary = fn.text)

(***************************************************************************)
(* Claims about cleanModelOutput (SpecClean).                              *)
(***************************************************************************)
\* C20: the output cleaner is idempotent: for every text x,
\* cleanModelOutput(cleanModelOutput(x)) equals cleanModelOutput(x).
C20_CleanIsIdempotent ==
  (fn.op = "clean" /\ fn.pc = "done") => fn.twice = fn.once

(***************************************************************************)
(* Claims about getTranscript (SpecFetch).                                 *)
(***************************************************************************)
FetchOver == fn.op = "getTranscript" /\ fn.pc \in {"threw", "returned"}

FailedFetches(outcomes) == {k \in 1..Len(outcomes) : outcomes[k] \in FetchErrors}

NoneReturnedText(outcomes) ==
  \A k \in 1..Len(outcomes) : outcomes[k] \in FetchErrors \cup {"empty"}

\* The message of the last fetch that threw, or of the error made after the
\* loop when no fetch threw.
LastFailure(outcomes) ==
  IF FailedFetches(outcomes) = {}
    THEN NoTranscriptFound
    ELSE outcomes[CHOOSE k \in FailedFetches(outcomes) :
                    \A j \in FailedFetches(outcomes) : j <= k]

TriesInOrder ==
  /\ Len(fn.tried) <= Len(languages)
  /\ fn.tried = SubSeq(languages, 1, Len(fn.tried))
  /\ \A k \in 1..(Len(fn.outcomes) - 1) :
        fn.outcomes[k] \in FetchErrors \cup {"empty"}

\* C22 as stated: the languages are fetched in order, no fetch follows one
\* that returned a non-empty transcript, and when no fetch returned one the
\* call fails with the very error of the last fetch that failed.
C22_FailsWithLastFetchError ==
  fn.op = "getTranscript" =>
    /\ TriesInOrder
    /\ (FetchOver /\ NoneReturnedText(fn.outcomes) /\ FailedFetches(fn.outcomes) # {}) =>
          /\ fn.pc = "threw"
          /\ fn.failure = LastFailure(fn.outcomes)

\* C22 corrected: the languages are fetched in order, no fetch follows one
\* that returned a non-empty transcript, and when no fetch returned one all
\* four were tried and the call fails with the rewrapped error: "Failed to
\* process video: ..." with the text chosen by the keywords of the message of
\* the last fetch that failed (of 'No transcript found ...' when none failed).
C22_FailsWithRewrappedLastError ==
  fn.op = "getTranscript" =>
    /\ TriesInOrder
    /\ (FetchOver /\ NoneReturnedText(fn.outcomes)) =>
          /\ Len(fn.tried) = Len(languages)
          /\ fn.pc = "threw"
          /\ fn.failure = Rewrap(LastFailure(fn.outcomes))

\* Two fetches failed with different errors, the later one not being the
\* last fetch, and the call has thrown.
C22_Witness ==
  /\ fn.op = "getTranscript"
  /\ fn.pc = "threw"
  /\ Len(fn.outcomes) = 4
  /\ fn.outcomes[1] = "Video unavailable"
  /\ fn.outcomes[2] = "empty"
  /\ fn.outcomes[3] = "Transcript is disabled"
  /\ fn.outcomes[4] = "empty"

(***************************************************************************)
(* Claims about two concurrent summarize runs (SpecRace).                  *)
(***************************************************************************)
AtMostOneRowPerKey ==
  \A r1 \in store, r2 \in store :
    (r1.video_id = r2.video_id /\ r1.language = r2.language) => r1 = r2

SameKeyBothMissed ==
  /\ fn.op = "race"
  /\ fn.p[1].language = fn.p[2].language
  /\ fn.p[1].missed
  /\ fn.p[2].missed

\* The step is a write of run i that the uniqueness constraint rejects.
RejectedWrite(i) ==
  /\ fn.p[i].pc \in {"insert", "update"}
  /\ fn'.p[i].pc = "done"
  /\ fn'.p[i].rejected

\* C24: with two concurrent runs of the same (sourceId, language) that both
\* missed the cache, the store never holds two rows of one key, and a write
\* rejected by the uniqueness constraint leaves the store, so the other
\* run's row, as it was.
C24_OneRowPerKeyRejectionKeepsRow ==
  /\ [](fn.op = "race" => AtMostOneRowPerKey)
  /\ [][\A i \in Runs :
          (SameKeyBothMissed /\ RejectedWrite(i)) =>
            /\ store' = store
            /\ \E r \in store' :
                 /\ r.video_id = fn.p[i].id
                 /\ r.language = fn.p[i].language
                 /\ r.content = RaceSummary(3 - i)]_vars

\* Both runs missed the cache on the same key, run 1 inserted its row and
\* the insert of run 2 was rejected.
C24_Witness ==
  /\ SameKeyBothMissed
  /\ fn.p[1].write = "insert"
  /\ ~fn.p[1].rejected
  /\ fn.p[2].rejected
  /\ store = {Row("v1", fn.p[1].language, "sumA")}

(***************************************************************************)
(* Claims about uploadToGoogleFiles (SpecUpload).                          *)
(***************************************************************************)
RequestsOf(type) == {k \in 1..Len(fn.requests) : fn.requests[k] = type}

Is2xx(status) == status \in 200..299

ProtocolPaths ==
  {<<"INIT">>,
   <<"INIT", "FAILED">>,
   <<"INIT", "SESSION_STARTED">>,
   <<"INIT", "SESSION_STARTED", "UPLOADING">>,
   <<"INIT", "SESSION_STARTED", "UPLOADING", "FAILED">>,
   <<"INIT", "SESSION_STARTED", "UPLOADING", "COMPLETE">>}

\* C26: the upload moves INIT, SESSION_STARTED, UPLOADING, then COMPLETE or
\* FAILED; the transfer request is issued at most once and only after the
\* one initiate request got a 2xx response with an upload URL; a non-2xx
\* initiate response or one without upload URL fails the upload with no
\* transfer request; a handle is returned only after a 2xx transfer response.
C26_TwoPhaseUpload ==
  fn.op = "upload" =>
    /\ fn.path \in ProtocolPaths
    /\ Cardinality(RequestsOf("initiate")) <= 1
    /\ Cardinality(RequestsOf("transfer")) <= 1
    /\ RequestsOf("transfer") # {} =>
          /\ fn.requests = <<"initiate", "transfer">>
          /\ Is2xx(fn.initStatus)
          /\ fn.uploadUrl # NoUploadUrl
    /\ (RequestsOf("initiate") # {}
          /\ (~Is2xx(fn.initStatus) \/ fn.uploadUrl = NoUploadUrl)) =>
          /\ fn.pc = "FAILED"
          /\ fn.error # "none"
          /\ RequestsOf("transfer") = {}
          /\ fn.handle = NoHandle
    /\ fn.handle # NoHandle =>
          /\ fn.pc = "COMPLETE"
          /\ RequestsOf("transfer") # {}
          /\ Is2xx(fn.uploadStatus)
          /\ fn.error = "none"
    /\ fn.pc = "COMPLETE" => fn.handle = RemoteFile

\* The upload has returned a handle after both requests were answered 2xx.
C26_Witness ==
  /\ fn.op = "upload"
  /\ fn.pc = "COMPLETE"
  /\ fn.requests = <<"initiate", "transfer">>
  /\ fn.initStatus = 204
  /\ fn.uploadStatus = 201
  /\ fn.body = "file"
  /\ fn.handle = RemoteFile

====
